---- MODULE Spec2Model ----
(***************************************************************************)
(* OFAC SDN Advanced XML parser (src/dataflow/pipeline.py) as a state      *)
(* machine: a document is read, parse_ofac_advanced_xml turns it into flat *)
(* party records, and CleanRecordFn applies clean_record to each record.   *)
(*                                                                         *)
(* Strings are TLA+ strings; a character is a string of length 1.          *)
(* A nullable Python value is a set: {} is None and {v} is the value v.    *)
(* An XML element is [tag, attrs, text, children]; an absent text is "".   *)
(***************************************************************************)
EXTENDS Integers, Sequences, FiniteSets, TLC

VARIABLES doc, well_formed, pc, status, pub_date, records, emitted,
          request, response, calls,
          heap, lookups, made, hpc, changes,
          env, fpc, flocals, steps, reply,
          twin

vars == <<doc, well_formed, pc, status, pub_date, records, emitted, request, response, calls,
          heap, lookups, made, hpc, changes, env, fpc, flocals, steps, reply, twin>>

\* the state of the pipeline (twin is what the parser of xml_parser.py returns
\* on the same bytes) and the state of the screening API
pipelineVars == <<doc, well_formed, pc, status, pub_date, records, emitted, twin>>

apiVars == <<request, response, calls>>

\* the objects of one call of parse_ofac_advanced_xml, and one invocation of
\* the download function
heapVars == <<heap, lookups, made, hpc, changes>>

functionVars == <<env, fpc, flocals, steps, reply>>

(***************************************************************************)
(* Python values                                                           *)
(***************************************************************************)
None == {}

\* the screening API has no request
NoRequest ==
    /\ request = None
    /\ response = None
    /\ calls = <<>>

\* no call of the parser is followed object by object
NoHeap ==
    /\ heap = [a \in {} |-> ""]
    /\ lookups = [a \in {} |-> ""]
    /\ made = <<>>
    /\ hpc = 0
    /\ changes = <<>>

\* the download function has not been invoked
NoInvocation ==
    /\ env = [k \in {} |-> ""]
    /\ fpc = "idle"
    /\ flocals = None
    /\ steps = <<>>
    /\ reply = None

Some(v) == {v}

The(o) == CHOOSE v \in o : TRUE

\* x or d, for a nullable string x
OrElse(o, d) == IF o = None \/ o = Some("") THEN d ELSE The(o)

(***************************************************************************)
(* str methods                                                             *)
(***************************************************************************)
CharAt(s, i) == SubSeq(s, i, i)

\* the ASCII characters str.strip() removes that the documents use
Whitespace == {" ", "\t", "\n"}

RECURSIVE LStripSet(_, _)
LStripSet(s, chars) ==
    IF Len(s) > 0 /\ CharAt(s, 1) \in chars
    THEN LStripSet(SubSeq(s, 2, Len(s)), chars)
    ELSE s

RECURSIVE RStripSet(_, _)
RStripSet(s, chars) ==
    IF Len(s) > 0 /\ CharAt(s, Len(s)) \in chars
    THEN RStripSet(SubSeq(s, 1, Len(s) - 1), chars)
    ELSE s

Strip(s) == RStripSet(LStripSet(s, Whitespace), Whitespace)

UpperLetters == "ABCDEFGHIJKLMNOPQRSTUVWXYZ"

LowerLetters == "abcdefghijklmnopqrstuvwxyz"

LowerChar(c) ==
    IF \E i \in 1..Len(UpperLetters) : CharAt(UpperLetters, i) = c
    THEN CharAt(LowerLetters, CHOOSE i \in 1..Len(UpperLetters) : CharAt(UpperLetters, i) = c)
    ELSE c

RECURSIVE Lower(_)
Lower(s) ==
    IF Len(s) <= 1 THEN LowerChar(s)
    ELSE Lower(SubSeq(s, 1, Len(s) \div 2)) \o Lower(SubSeq(s, Len(s) \div 2 + 1, Len(s)))

\* sub in s
Contains(sub, s) ==
    \E i \in 1..(Len(s) - Len(sub) + 1) : SubSeq(s, i, i + Len(sub) - 1) = sub

\* sep.join(parts)
RECURSIVE Join(_, _)
Join(sep, parts) ==
    IF Len(parts) = 0 THEN ""
    ELSE IF Len(parts) = 1 THEN parts[1]
    ELSE parts[1] \o sep \o Join(sep, Tail(parts))

Digits == "0123456789"

IsDigit(c) == \E i \in 1..Len(Digits) : CharAt(Digits, i) = c

DigitVal(c) == (CHOOSE i \in 1..Len(Digits) : CharAt(Digits, i) = c) - 1

\* digits with single underscores between them, as int() accepts
RECURSIVE IsDigitString(_)
IsDigitString(s) ==
    /\ Len(s) > 0
    /\ IsDigit(CharAt(s, 1))
    /\ \/ Len(s) = 1
       \/ IsDigitString(SubSeq(s, 2, Len(s)))
       \/ Len(s) > 2 /\ CharAt(s, 2) = "_" /\ IsDigitString(SubSeq(s, 3, Len(s)))

RECURSIVE DigitsValue(_, _)
DigitsValue(s, acc) ==
    IF Len(s) = 0 THEN acc
    ELSE IF CharAt(s, 1) = "_" THEN DigitsValue(SubSeq(s, 2, Len(s)), acc)
    ELSE DigitsValue(SubSeq(s, 2, Len(s)), 10 * acc + DigitVal(CharAt(s, 1)))

\* an int() that takes digits only, no sign
IntOfUnsigned(s) ==
    IF IsDigitString(Strip(s))
    THEN [ok |-> TRUE, val |-> DigitsValue(Strip(s), 0)]
    ELSE [ok |-> FALSE, val |-> 0]

\* int(s): [ok |-> TRUE, val |-> n], or [ok |-> FALSE, val |-> 0] where int raises ValueError
IntOf(s) ==
    LET t == Strip(s)
        signed == Len(t) > 0 /\ CharAt(t, 1) \in {"+", "-"}
        body == IF signed THEN SubSeq(t, 2, Len(t)) ELSE t
        mag == DigitsValue(body, 0)
    IN  IF IsDigitString(body)
        THEN [ok |-> TRUE, val |-> IF signed /\ CharAt(t, 1) = "-" THEN 0 - mag ELSE mag]
        ELSE [ok |-> FALSE, val |-> 0]

(***************************************************************************)
(* Sequences and dicts                                                     *)
(***************************************************************************)
InSeq(x, s) == \E i \in 1..Len(s) : s[i] = x

\* an append that does not look whether x is already there
AppendAlways(s, x) == Append(s, x)

\* append x unless it is already there
AppendNew(s, x) == IF InSeq(x, s) THEN s ELSE Append(s, x)

RECURSIVE ExtendNew(_, _)
ExtendNew(s, xs) ==
    IF Len(xs) = 0 THEN s ELSE ExtendNew(AppendNew(s, Head(xs)), Tail(xs))

EmptyDict == [k \in {} |-> ""]

HasKey(d, k) == k \in DOMAIN d

\* d.get(k, default)
DictGet(d, k, default) == IF k \in DOMAIN d THEN d[k] ELSE default

\* d[k] = v
DictSet(d, k, v) == (k :> v) @@ d

(***************************************************************************)
(* ElementTree                                                             *)
(***************************************************************************)
NoAttrs == [k \in {} |-> ""]

Elem(tag, attrs, text, children) ==
    [tag |-> tag, attrs |-> attrs, text |-> text, children |-> children]

\* element.get(name, default); element.get(name) is Attr(e, name, "") wherever the
\* code only tests the value for truth or uses it as a dict key
Attr(e, name, default) == IF name \in DOMAIN e.attrs THEN e.attrs[name] ELSE default

\* (element.text or "").strip()
Text(e) == Strip(e.text)

RECURSIVE AfterBrace(_)
AfterBrace(s) ==
    IF Contains("}", s)
    THEN AfterBrace(SubSeq(s, (CHOOSE i \in 1..Len(s) : CharAt(s, i) = "}"
                                  /\ \A j \in 1..(i - 1) : CharAt(s, j) # "}") + 1, Len(s)))
    ELSE s

_local_tag(element_tag) == AfterBrace(element_tag)

_iter_tag(parent, local_name) ==
    SelectSeq(parent.children, LAMBDA c : _local_tag(c.tag) = local_name)

\* None, or the first direct child with the tag
_find_tag(parent, local_name) ==
    LET found == _iter_tag(parent, local_name)
    IN  IF Len(found) = 0 THEN None ELSE Some(found[1])

\* bool(element): an Element is a sequence of its children, so one without
\* children is false
ElementTruth(e) == Len(e.children) > 0

\* s.zfill(width)
RECURSIVE ZeroPad(_, _)
ZeroPad(s, n) == IF n <= 0 THEN s ELSE ZeroPad("0" \o s, n - 1)

ZFill(s, width) ==
    IF Len(s) >= width THEN s
    ELSE IF Len(s) > 0 /\ CharAt(s, 1) \in {"+", "-"}
    THEN CharAt(s, 1) \o ZeroPad(SubSeq(s, 2, Len(s)), width - Len(s))
    ELSE ZeroPad(s, width - Len(s))

\* F(v), with v computed before F is entered, as the argument of a Python call is
Call(F(_), v) == CHOOSE out \in {F(x) : x \in {v}} : TRUE

\* a for loop over seq that threads acc through Body
RECURSIVE ForEach(_, _, _)
ForEach(Body(_, _), acc, seq) ==
    IF Len(seq) = 0 THEN acc
    ELSE IF Len(seq) = 1 THEN Body(acc, seq[1])
    ELSE Call(LAMBDA first : ForEach(Body, first, SubSeq(seq, Len(seq) \div 2 + 1, Len(seq))),
              ForEach(Body, acc, SubSeq(seq, 1, Len(seq) \div 2)))

\* a loop without the break: the children of every child of root with the tag
EveryBlock(root, name) ==
    ForEach(LAMBDA acc, block : acc \o block.children, <<>>, _iter_tag(root, name))

\* the children of the first child of root with the tag: "for child in root:
\* if tag != name: continue ... break"
FirstBlock(root, name) ==
    LET blocks == _iter_tag(root, name)
    IN  IF Len(blocks) = 0 THEN <<>> ELSE blocks[1].children

(***************************************************************************)
(* Pass 1: lookup maps                                                     *)
(***************************************************************************)
\* the f-strings that format a date from the stripped Year, Month and Day texts
FormatDate(year, month, day) ==
    IF year = "" THEN None
    ELSE IF month # "" /\ day # "" THEN Some(year \o "-" \o month \o "-" \o day)
    ELSE IF month # "" THEN Some(year \o "-" \o month)
    ELSE Some(year)

\* the Month or Day text as it stands, not filled to width 2
Unpadded(parts, key) == DictGet(parts, key, "")

\* parts.get(key, "").zfill(2) if parts.get(key) else ""
Padded(parts, key) == IF DictGet(parts, key, "") # "" THEN ZFill(parts[key], 2) ELSE ""

PartsDate(parts) == FormatDate(DictGet(parts, "Year", ""), Padded(parts, "Month"), Padded(parts, "Day"))

\* the date of one Start/End boundary, or None where the loop continues
BoundaryDate(boundary) ==
    IF _local_tag(boundary.tag) \notin {"Start", "End"} THEN None
    ELSE IF _find_tag(boundary, "From") = None THEN None
    ELSE PartsDate(ForEach(LAMBDA acc, d : DictSet(acc, _local_tag(d.tag), Text(d)),
                           EmptyDict, The(_find_tag(boundary, "From")).children))

_parse_date_period(dp_elem) ==
    ForEach(LAMBDA acc, boundary : IF acc # None THEN acc ELSE BoundaryDate(boundary),
            None, dp_elem.children)

\* (short_ref.text or "").strip() if short_ref else ""
ShortRefText(short_ref) ==
    IF short_ref # None /\ ElementTruth(The(short_ref)) THEN Text(The(short_ref)) ELSE ""

\* LegalBasisValues: ID -> text of the LegalBasisShortRef child
LegalBasisMapping(set_elem) ==
    ForEach(LAMBDA mapping, lb :
                IF Attr(lb, "ID", "") = "" THEN mapping
                ELSE DictSet(mapping, Attr(lb, "ID", ""),
                             ShortRefText(_find_tag(lb, "LegalBasisShortRef"))),
            EmptyDict, set_elem.children)

\* PartySubTypeValues: ID -> <<text, PartyTypeID>>, added to what earlier sets left
RawPartySubtypes(raw, set_elem) ==
    ForEach(LAMBDA acc, item :
                LET item_id == Attr(item, "ID", "")
                IN  IF item_id = "" THEN acc
                    ELSE DictSet(acc, item_id, <<Text(item), Attr(item, "PartyTypeID", "")>>),
            raw, set_elem.children)

SimpleMapping(set_elem) ==
    ForEach(LAMBDA mapping, item :
                LET item_id == Attr(item, "ID", "")
                IN  IF item_id = "" THEN mapping ELSE DictSet(mapping, item_id, Text(item)),
            EmptyDict, set_elem.children)

\* a cross-reference that replaces the text "Unknown" only
CrossReferenceUnknownOnly(raw, party_type_values) ==
    [sub_id \in DOMAIN raw |->
        IF raw[sub_id][1] # "Unknown" THEN raw[sub_id][1]
        ELSE DictGet(party_type_values, raw[sub_id][2], raw[sub_id][1])]

\* PartySubTypeValues after the cross-reference with PartyTypeValues
CrossReference(raw, party_type_values) ==
    [sub_id \in DOMAIN raw |->
        LET sub_text == raw[sub_id][1]
            party_type_id == raw[sub_id][2]
        IN  IF sub_text # "" /\ sub_text # "Unknown" THEN sub_text
            ELSE DictGet(party_type_values, party_type_id, sub_text)]

\* one child of ReferenceValueSets folded into [refs, raw]
ValueSet(acc, set_elem, set_name) ==
    IF set_name = "LegalBasisValues"
    THEN [acc EXCEPT !.refs = DictSet(@, set_name, LegalBasisMapping(set_elem))]
    ELSE IF set_name = "PartySubTypeValues"
    THEN [raw |-> RawPartySubtypes(acc.raw, set_elem),
          refs |-> DictSet(acc.refs, set_name,
                           [k \in DOMAIN RawPartySubtypes(acc.raw, set_elem) |->
                               RawPartySubtypes(acc.raw, set_elem)[k][1]])]
    ELSE [acc EXCEPT !.refs = DictSet(@, set_name, SimpleMapping(set_elem))]

\* the cross-reference step that follows the loop over the sets
CrossReferenced(built) ==
    IF DOMAIN built.raw # {} /\ HasKey(built.refs, "PartyTypeValues")
    THEN DictSet(built.refs, "PartySubTypeValues",
                 CrossReference(built.raw, built.refs["PartyTypeValues"]))
    ELSE built.refs

_build_ref_maps(root) ==
    CrossReferenced(ForEach(LAMBDA acc, set_elem : ValueSet(acc, set_elem, _local_tag(set_elem.tag)),
                            [refs |-> EmptyDict, raw |-> EmptyDict],
                            FirstBlock(root, "ReferenceValueSets")))

EmptyLocation ==
    [address |-> "", city |-> "", state_province |-> "",
     postal_code |-> "", country |-> "", region |-> ""]

\* a routing that tests "address" before "city"
RoutePartAddressFirst(loc_data, loc_part_name, part_value) ==
    IF part_value = "" THEN loc_data
    ELSE IF Contains("address", loc_part_name) THEN [loc_data EXCEPT !.address = part_value]
    ELSE IF Contains("city", loc_part_name) THEN [loc_data EXCEPT !.city = part_value]
    ELSE IF Contains("state", loc_part_name) \/ Contains("province", loc_part_name)
    THEN [loc_data EXCEPT !.state_province = part_value]
    ELSE IF Contains("postal", loc_part_name) \/ Contains("zip", loc_part_name)
    THEN [loc_data EXCEPT !.postal_code = part_value]
    ELSE IF Contains("region", loc_part_name) THEN [loc_data EXCEPT !.region = part_value]
    ELSE [loc_data EXCEPT !.address = LStripSet(@ \o ", " \o part_value, {",", " "})]

\* a non-empty part value routed by the lowercased part-type name
RoutePart(loc_data, loc_part_name, part_value) ==
    IF part_value = "" THEN loc_data
    ELSE IF Contains("city", loc_part_name) THEN [loc_data EXCEPT !.city = part_value]
    ELSE IF Contains("address", loc_part_name) THEN [loc_data EXCEPT !.address = part_value]
    ELSE IF Contains("state", loc_part_name) \/ Contains("province", loc_part_name)
    THEN [loc_data EXCEPT !.state_province = part_value]
    ELSE IF Contains("postal", loc_part_name) \/ Contains("zip", loc_part_name)
    THEN [loc_data EXCEPT !.postal_code = part_value]
    ELSE IF Contains("region", loc_part_name) THEN [loc_data EXCEPT !.region = part_value]
    ELSE [loc_data EXCEPT !.address = LStripSet(@ \o ", " \o part_value, {",", " "})]

\* the stripped text of the first LocationPartValue child, or ""
PartValue(lpvs) == IF Len(lpvs) = 0 THEN "" ELSE Text(lpvs[1])

\* one LocationPart routed into loc_data
LocationPart(loc_data, lchild, loc_part_types) ==
    RoutePart(loc_data,
              Lower(DictGet(loc_part_types, Attr(lchild, "LocPartTypeID", ""), "")),
              PartValue(_iter_tag(lchild, "LocationPartValue")))

_build_locations_map(root, country_values, loc_part_types) ==
    ForEach(LAMBDA locations, loc :
                LET loc_id == Attr(loc, "ID", "")
                    loc_data == ForEach(LAMBDA acc, lchild :
                        LET lt == _local_tag(lchild.tag)
                        IN  IF lt = "LocationCountry"
                            THEN [acc EXCEPT !.country =
                                     DictGet(country_values, Attr(lchild, "CountryID", ""), "")]
                            ELSE IF lt = "LocationPart"
                            THEN LocationPart(acc, lchild, loc_part_types)
                            ELSE acc,
                        EmptyLocation, loc.children)
                IN  IF _local_tag(loc.tag) # "Location" \/ loc_id = "" THEN locations
                    ELSE DictSet(locations, loc_id, loc_data),
            EmptyDict, FirstBlock(root, "Locations"))

_build_id_docs_map(root, country_values, id_reg_doc_types) ==
    ForEach(LAMBDA docs, d :
                LET doc_id == Attr(d, "ID", "")
                    initial == [id_type |-> DictGet(id_reg_doc_types, Attr(d, "IDRegDocTypeID", ""), ""),
                                id_number |-> "", country |-> "", issue_date |-> "",
                                expiry_date |-> "", is_fraudulent |-> FALSE]
                    doc_data == ForEach(LAMBDA acc, dchild :
                        LET dct == _local_tag(dchild.tag)
                        IN  IF dct = "IDRegDocType"
                            THEN [acc EXCEPT !.id_type =
                                     DictGet(id_reg_doc_types, Attr(dchild, "IDRegDocTypeID", ""),
                                             Text(dchild))]
                            ELSE IF dct = "IDRegDocumentID"
                            THEN [acc EXCEPT !.id_number = Text(dchild)]
                            ELSE IF dct = "IssuingCountry"
                            THEN [acc EXCEPT !.country =
                                     DictGet(country_values, Attr(dchild, "CountryID", ""), "")]
                            ELSE IF dct = "IDRegDocDateOfIssuance"
                            THEN [acc EXCEPT !.issue_date = OrElse(_parse_date_period(dchild), "")]
                            ELSE IF dct = "IDRegDocExpirationDate"
                            THEN [acc EXCEPT !.expiry_date = OrElse(_parse_date_period(dchild), "")]
                            ELSE acc,
                        initial, d.children)
                IN  IF _local_tag(d.tag) # "IDRegDocument" \/ doc_id = "" THEN docs
                    ELSE DictSet(docs, doc_id, doc_data),
            EmptyDict, FirstBlock(root, "IDRegDocuments"))

\* the programs, legal authorities and remarks one SanctionsEntry carries
EntryData(entry, legal_basis_map) ==
    ForEach(LAMBDA acc, echild :
                LET ect == _local_tag(echild.tag)
                    lb_id == Attr(echild, "LegalBasisID", "")
                IN  IF ect = "SanctionsMeasure"
                    THEN [acc EXCEPT !.programs =
                             ForEach(LAMBDA programs, sm_child :
                                         IF _local_tag(sm_child.tag) = "Comment" /\ Text(sm_child) # ""
                                         THEN AppendNew(programs, Text(sm_child))
                                         ELSE programs,
                                     @, echild.children)]
                    ELSE IF ect = "EntryEvent"
                    THEN IF lb_id # "" /\ HasKey(legal_basis_map, lb_id) /\ legal_basis_map[lb_id] # ""
                         THEN [acc EXCEPT !.legal_authorities = AppendNew(@, legal_basis_map[lb_id])]
                         ELSE acc
                    ELSE IF ect = "Remarks"
                    THEN [acc EXCEPT !.remarks = Text(echild)]
                    ELSE acc,
            [programs |-> <<>>, legal_authorities |-> <<>>, remarks |-> ""],
            entry.children)

\* a merge in which the programs of the later entry replace the earlier ones
MergeEntryOverwrite(se, data) ==
    [programs |-> data.programs,
     legal_authorities |-> ExtendNew(se.legal_authorities, data.legal_authorities),
     remarks |-> IF data.remarks # "" THEN data.remarks ELSE se.remarks]

\* a merge in which the remarks of the later entry replace the earlier ones
\* also when they are empty
MergeEntryLastRemarks(se, data) ==
    [programs |-> ExtendNew(se.programs, data.programs),
     legal_authorities |-> ExtendNew(se.legal_authorities, data.legal_authorities),
     remarks |-> data.remarks]

\* the entry's data merged into what the map holds for its profile
MergeEntry(se, data) ==
    [programs |-> ExtendNew(se.programs, data.programs),
     legal_authorities |-> ExtendNew(se.legal_authorities, data.legal_authorities),
     remarks |-> IF data.remarks # "" THEN data.remarks ELSE se.remarks]

_build_sanctions_map(root, legal_basis_map, sanctions_programs) ==
    ForEach(LAMBDA sanctions, entry :
                IF _local_tag(entry.tag) # "SanctionsEntry" \/ Strip(Attr(entry, "ProfileID", "")) = ""
                THEN sanctions
                ELSE DictSet(sanctions, Strip(Attr(entry, "ProfileID", "")),
                             MergeEntry(DictGet(sanctions, Strip(Attr(entry, "ProfileID", "")),
                                                [programs |-> <<>>, legal_authorities |-> <<>>,
                                                 remarks |-> ""]),
                                        EntryData(entry, legal_basis_map))),
            EmptyDict, FirstBlock(root, "SanctionsEntries"))

(***************************************************************************)
(* Pass 2: one record per DistinctParty                                    *)
(***************************************************************************)
OFAC_SOURCE_URL ==
    "https://sanctionslistservice.ofac.treas.gov/api/PublicationPreview/exports/SDN_ADVANCED.XML"

NAME_PART_ORDER ==
    ("last name" :> 0) @@ ("last" :> 0) @@ ("entity name" :> 0) @@ ("vessel name" :> 0)
    @@ ("aircraft name" :> 0) @@ ("first name" :> 1) @@ ("first" :> 1)
    @@ ("middle name" :> 2) @@ ("middle" :> 2) @@ ("patronymic" :> 3) @@ ("matronymic" :> 4)

\* the key-to-field tables, in the order the dict literals list them
VESSEL_FEATURES ==
    << <<"vessel call sign", "vessel_call_sign">>, <<"vessel type", "vessel_type">>,
       <<"vessel tonnage", "vessel_tonnage">>, <<"gross registered tonnage", "vessel_grt">>,
       <<"vessel flag", "vessel_flag">>, <<"vessel owner", "vessel_owner">>,
       <<"mmsi", "vessel_mmsi">>, <<"imo", "vessel_imo">> >>

AIRCRAFT_FEATURES ==
    << <<"aircraft construction number", "aircraft_serial">>,
       <<"aircraft manufacturer's serial number", "aircraft_serial">>,
       <<"aircraft model", "aircraft_type">>, <<"aircraft operator", "aircraft_operator">>,
       <<"aircraft tail number", "aircraft_tail_number">>, <<"aircraft type", "aircraft_type">>,
       <<"aircraft manufacturer", "aircraft_manufacturer">> >>

\* npg_map: NamePartGroup ID -> name-part type name, scoped to one Identity
NamePartGroupMap(identity_elem, name_part_types) ==
    ForEach(LAMBDA m1, groups :
        ForEach(LAMBDA m2, master :
            ForEach(LAMBDA m3, ng :
                LET ng_id == Attr(ng, "ID", "")
                    ng_type_id == Attr(ng, "NamePartTypeID", "")
                IN  IF _local_tag(ng.tag) = "NamePartGroup" /\ ng_id # "" /\ ng_type_id # ""
                    THEN DictSet(m3, ng_id,
                                 DictGet(name_part_types, ng_type_id, "part_" \o ng_type_id))
                    ELSE m3,
                m2, master.children),
            m1, groups.children),
        EmptyDict, _iter_tag(identity_elem, "NamePartGroups"))

\* parts_raw of one DocumentedName, in document order
PartsRaw(doc_name, npg_map, script_values) ==
    ForEach(LAMBDA acc, dnp :
        ForEach(LAMBDA parts, npv :
            LET part_type == DictGet(npg_map, Attr(npv, "NamePartGroupID", ""), "Name")
                script == DictGet(script_values, Attr(npv, "ScriptID", ""), "")
                value == Text(npv)
            IN  IF value # ""
                THEN Append(parts, [sort_key |-> DictGet(NAME_PART_ORDER, Lower(part_type), 99),
                                    part_type |-> part_type, script |-> script, value |-> value])
                ELSE parts,
            acc, _iter_tag(dnp, "NamePartValue")),
        <<>>, _iter_tag(doc_name, "DocumentedNamePart"))

\* a sort that is not stable: the part goes before the parts of equal key
InsertByKeyUnstable(sorted, part) ==
    LET n == Cardinality({i \in 1..Len(sorted) : sorted[i].sort_key < part.sort_key})
    IN  SubSeq(sorted, 1, n) \o <<part>> \o SubSeq(sorted, n + 1, Len(sorted))

\* list.sort(key=...): a stable sort, here by insertion after the last part whose
\* key is not larger
InsertByKey(sorted, part) ==
    LET n == Cardinality({i \in 1..Len(sorted) : sorted[i].sort_key <= part.sort_key})
    IN  SubSeq(sorted, 1, n) \o <<part>> \o SubSeq(sorted, n + 1, Len(sorted))

SortParts(parts_raw) == ForEach(InsertByKey, <<>>, parts_raw)

\* name_parts_bq and full_name of the sorted parts
NameOfParts(parts_raw) ==
    [full_name |-> Join(" ", [i \in 1..Len(parts_raw) |-> parts_raw[i].value]),
     name_parts |-> [i \in 1..Len(parts_raw) |->
                        [part_type |-> parts_raw[i].part_type,
                         part_value |-> parts_raw[i].value,
                         script |-> parts_raw[i].script]]]

\* the name one DocumentedName gives
DocumentedName(doc_name, npg_map, script_values) ==
    NameOfParts(SortParts(PartsRaw(doc_name, npg_map, script_values)))

\* a tail in which every name flagged primary becomes the primary name
AddNameLastPrimary(record, name, is_primary, alias_type, alias_quality) ==
    IF name.full_name = "" THEN record
    ELSE IF is_primary
    THEN [record EXCEPT !.primary_name = Some(name)]
    ELSE [record EXCEPT !.aliases =
             Append(@, [alias_type |-> alias_type, alias_quality |-> alias_quality,
                        full_name |-> name.full_name, name_parts |-> name.name_parts])]

\* a tail that does not skip the names whose full_name is empty
AddNameKeepEmpty(record, name, is_primary, alias_type, alias_quality) ==
    IF is_primary /\ record.primary_name = None
    THEN [record EXCEPT !.primary_name = Some(name)]
    ELSE [record EXCEPT !.aliases =
             Append(@, [alias_type |-> alias_type, alias_quality |-> alias_quality,
                        full_name |-> name.full_name, name_parts |-> name.name_parts])]

\* the tail of the DocumentedName loop: skip, set the primary name, or append an alias
AddName(record, name, is_primary, alias_type, alias_quality) ==
    IF name.full_name = "" THEN record
    ELSE IF is_primary /\ record.primary_name = None
    THEN [record EXCEPT !.primary_name = Some(name)]
    ELSE [record EXCEPT !.aliases =
             Append(@, [alias_type |-> alias_type, alias_quality |-> alias_quality,
                        full_name |-> name.full_name, name_parts |-> name.name_parts])]

\* alias.get(flag, "false").strip().lower() == "true"
FlagIsTrue(alias, flag) == Lower(Strip(Attr(alias, flag, "false"))) = "true"

\* the Alias loop of _parse_identity, npg_map built
AliasLoop(identity_elem, record, alias_types, script_values, npg_map) ==
    ForEach(LAMBDA r1, alias :
        LET alias_type == DictGet(alias_types, Attr(alias, "AliasTypeID", ""), "a.k.a.")
            alias_quality == IF FlagIsTrue(alias, "LowQuality") THEN "weak" ELSE "strong"
        IN  ForEach(LAMBDA r2, doc_name :
                AddName(r2, DocumentedName(doc_name, npg_map, script_values),
                        FlagIsTrue(alias, "Primary"), alias_type, alias_quality),
                r1, _iter_tag(alias, "DocumentedName")),
        record, _iter_tag(identity_elem, "Alias"))

_parse_identity(identity_elem, record, alias_types, script_values, name_part_types) ==
    Call(LAMBDA npg_map : AliasLoop(identity_elem, record, alias_types, script_values, npg_map),
         NamePartGroupMap(identity_elem, name_part_types))

\* a test for "birth" alone
_apply_location_birth(loc, ft_name, record) ==
    LET pob == Join(", ", SelectSeq(<<loc.city, loc.state_province, loc.country>>,
                                    LAMBDA x : x # ""))
    IN  IF Contains("birth", ft_name)
        THEN IF pob # "" /\ ~InSeq(pob, record.places_of_birth)
             THEN [record EXCEPT !.places_of_birth = Append(@, pob)]
             ELSE record
        ELSE IF \E k \in DOMAIN loc : loc[k] # ""
             THEN [record EXCEPT !.addresses = Append(@, loc)]
             ELSE record

_apply_location(loc, ft_name, record) ==
    LET pob == Join(", ", SelectSeq(<<loc.city, loc.state_province, loc.country>>,
                                    LAMBDA x : x # ""))
    IN  IF Contains("birth", ft_name) /\ Contains("place", ft_name)
        THEN IF pob # "" /\ ~InSeq(pob, record.places_of_birth)
             THEN [record EXCEPT !.places_of_birth = Append(@, pob)]
             ELSE record
        ELSE IF \E k \in DOMAIN loc : loc[k] # ""
             THEN [record EXCEPT !.addresses = Append(@, loc)]
             ELSE record

\* one VersionDetail child of a FeatureVersion
VersionDetail(record, fvc, ft_name, country_values, locations_map, id_docs_map) ==
    LET country_id == Attr(fvc, "CountryID", "")
        country_name == DictGet(country_values, country_id, "")
        r1 == IF country_id = "" \/ country_name = "" THEN record
              ELSE IF Contains("national", ft_name)
              THEN [record EXCEPT !.nationalities = AppendNew(@, country_name)]
              ELSE IF Contains("citizen", ft_name)
              THEN [record EXCEPT !.citizenships = AppendNew(@, country_name)]
              ELSE record
    IN  ForEach(LAMBDA r, vdc :
            LET vdct == _local_tag(vdc.tag)
                doc_id == Attr(vdc, "DocumentID", "")
            IN  IF vdct = "LocationID"
                THEN IF Text(vdc) # "" /\ HasKey(locations_map, Text(vdc))
                     THEN _apply_location(locations_map[Text(vdc)], ft_name, r)
                     ELSE r
                ELSE IF vdct = "IDRegDocumentReference"
                THEN IF doc_id # "" /\ HasKey(id_docs_map, doc_id)
                     THEN [r EXCEPT !.id_documents = Append(@, id_docs_map[doc_id])]
                     ELSE r
                ELSE r,
            r1, fvc.children)

\* the loops without the break: the field of every key that matches is set
SetEveryMatch(fields, table, ft_name, comment) ==
    ForEach(LAMBDA acc, kv : IF Contains(kv[1], ft_name) /\ comment # ""
                             THEN DictSet(acc, kv[2], comment) ELSE acc,
            fields, table)

\* the first key of the table that is in ft_name sets its field to the comment
SetFirstMatch(fields, table, ft_name, comment) ==
    LET hits == SelectSeq(table, LAMBDA kv : Contains(kv[1], ft_name) /\ comment # "")
    IN  IF Len(hits) = 0 THEN fields ELSE DictSet(fields, hits[1][2], comment)

\* one child of a FeatureVersion folded into [record, comment]
VersionChild(st, fvc, fvct, ft_name, country_values, locations_map, id_docs_map) ==
    IF fvct = "Comment" THEN [st EXCEPT !.comment = Text(fvc)]
    ELSE IF fvct = "DatePeriod"
    THEN IF _parse_date_period(fvc) \notin {None, Some("")}
            /\ Contains("birth", ft_name) /\ Contains("date", ft_name)
         THEN [st EXCEPT !.record.dates_of_birth = AppendNew(@, The(_parse_date_period(fvc)))]
         ELSE st
    ELSE IF fvct = "VersionDetail"
    THEN [st EXCEPT !.record = VersionDetail(@, fvc, ft_name, country_values,
                                             locations_map, id_docs_map)]
    ELSE IF fvct = "VersionLocation"
    THEN IF Attr(fvc, "LocationID", "") # "" /\ HasKey(locations_map, Attr(fvc, "LocationID", ""))
         THEN [st EXCEPT !.record =
                  _apply_location(locations_map[Attr(fvc, "LocationID", "")], ft_name, @)]
         ELSE st
    ELSE st

\* the gender / title / additional sanctions chain on the captured comment
CommentFields(record, ft_name, comment) ==
    IF Contains("gender", ft_name) /\ comment # "" THEN [record EXCEPT !.gender = Some(comment)]
    ELSE IF Contains("title", ft_name) /\ comment # "" THEN [record EXCEPT !.title = Some(comment)]
    ELSE record

IsAdditionalSanctions(ft_name, comment) ==
    /\ ~(Contains("gender", ft_name) /\ comment # "")
    /\ ~(Contains("title", ft_name) /\ comment # "")
    /\ Contains("additional sanctions", ft_name) /\ comment # ""

\* what follows the loop over the children of a FeatureVersion
AfterChildren(acc, body, ft_name) ==
    [record |-> CommentFields(body.record, ft_name, body.comment),
     vessel |-> SetFirstMatch(acc.vessel, VESSEL_FEATURES, ft_name, body.comment),
     aircraft |-> SetFirstMatch(acc.aircraft, AIRCRAFT_FEATURES, ft_name, body.comment),
     additional_sanctions |-> IF IsAdditionalSanctions(ft_name, body.comment)
                              THEN Append(acc.additional_sanctions, body.comment)
                              ELSE acc.additional_sanctions]

\* one FeatureVersion folded into [record, vessel, aircraft, additional_sanctions]
FeatureVersion(acc, fv, ft_name, country_values, locations_map, id_docs_map) ==
    AfterChildren(acc,
                  ForEach(LAMBDA st, fvc :
                              VersionChild(st, fvc, _local_tag(fvc.tag), ft_name, country_values,
                                           locations_map, id_docs_map),
                          [record |-> acc.record, comment |-> ""], fv.children),
                  ft_name)

\* dict.get(field) for every field of a vessel_info / aircraft_info struct
InfoStruct(fields, names) ==
    [k \in names |-> IF HasKey(fields, k) THEN Some(fields[k]) ELSE None]

VesselFields ==
    {"vessel_type", "vessel_flag", "vessel_owner", "vessel_tonnage",
     "vessel_grt", "vessel_call_sign", "vessel_mmsi", "vessel_imo"}

AircraftFields ==
    {"aircraft_type", "aircraft_manufacturer", "aircraft_serial",
     "aircraft_tail_number", "aircraft_operator"}

\* the tail of _parse_features: the structs the accumulators give
Materialize(folded) ==
    [folded.record EXCEPT
        !.vessel_info = IF DOMAIN folded.vessel # {}
                        THEN Some(InfoStruct(folded.vessel, VesselFields)) ELSE @,
        !.aircraft_info = IF DOMAIN folded.aircraft # {}
                          THEN Some(InfoStruct(folded.aircraft, AircraftFields)) ELSE @,
        !.additional_sanctions_info = IF Len(folded.additional_sanctions) > 0
                                      THEN Some(Join("; ", folded.additional_sanctions)) ELSE @]

_parse_features(profile_elem, record, feature_types, country_values, locations_map, id_docs_map) ==
    Materialize(
        ForEach(LAMBDA a1, feature :
                    ForEach(LAMBDA a2, fv :
                                FeatureVersion(a2, fv,
                                    Lower(DictGet(feature_types, Attr(feature, "FeatureTypeID", ""), "")),
                                    country_values, locations_map, id_docs_map),
                            a1, _iter_tag(feature, "FeatureVersion")),
                [record |-> record, vessel |-> EmptyDict, aircraft |-> EmptyDict,
                 additional_sanctions |-> <<>>],
                _iter_tag(profile_elem, "Feature")))

\* a record that carries the time of the call in publication_date as well
NewRecordStamped(sdn_entry_id, pubDate, ingestion_ts) ==
    [sdn_entry_id |-> sdn_entry_id, sdn_type |-> None,
     programs |-> <<>>, legal_authorities |-> <<>>,
     primary_name |-> None, aliases |-> <<>>, addresses |-> <<>>,
     id_documents |-> <<>>, dates_of_birth |-> <<>>, places_of_birth |-> <<>>,
     nationalities |-> <<>>, citizenships |-> <<>>,
     title |-> None, gender |-> None, remarks |-> None,
     vessel_info |-> None, aircraft_info |-> None,
     additional_sanctions_info |-> None,
     publication_date |-> Some(ingestion_ts),
     ingestion_timestamp |-> ingestion_ts,
     source_url |-> OFAC_SOURCE_URL]

\* the record of one DistinctParty before its Profile children are read
NewRecord(sdn_entry_id, pubDate, ingestion_ts) ==
    [sdn_entry_id |-> sdn_entry_id, sdn_type |-> None,
     programs |-> <<>>, legal_authorities |-> <<>>,
     primary_name |-> None, aliases |-> <<>>, addresses |-> <<>>,
     id_documents |-> <<>>, dates_of_birth |-> <<>>, places_of_birth |-> <<>>,
     nationalities |-> <<>>, citizenships |-> <<>>,
     title |-> None, gender |-> None, remarks |-> None,
     vessel_info |-> None, aircraft_info |-> None,
     additional_sanctions_info |-> None,
     publication_date |-> pubDate,
     ingestion_timestamp |-> ingestion_ts,
     source_url |-> OFAC_SOURCE_URL]

\* the sanctions map entry of the profile laid over the record
Overlay(record, sanctions_map, profile_id) ==
    IF HasKey(sanctions_map, profile_id)
    THEN [record EXCEPT !.programs = sanctions_map[profile_id].programs,
                        !.legal_authorities = sanctions_map[profile_id].legal_authorities,
                        !.remarks = IF sanctions_map[profile_id].remarks = "" THEN None
                                    ELSE Some(sanctions_map[profile_id].remarks)]
    ELSE record

\* a lookup with a default that is not empty
SubtypeOrUnknown(party_subtypes, subtype_id) ==
    IF HasKey(party_subtypes, subtype_id) THEN Some(party_subtypes[subtype_id])
    ELSE Some("Unknown")

\* party_subtypes.get(PartySubTypeID)
SubtypeOf(party_subtypes, subtype_id) ==
    IF HasKey(party_subtypes, subtype_id) THEN Some(party_subtypes[subtype_id]) ELSE None

\* the Identity children of a Profile
Identities(record, profile_elem, refs) ==
    ForEach(LAMBDA r, pchild :
                _parse_identity(pchild, r, DictGet(refs, "AliasTypeValues", EmptyDict),
                                DictGet(refs, "ScriptValues", EmptyDict),
                                DictGet(refs, "NamePartTypeValues", EmptyDict)),
            record, _iter_tag(profile_elem, "Identity"))

\* one Profile child of a DistinctParty folded into its record
Profile(record, profile_elem, refs, locations_map, id_docs_map, sanctions_map) ==
    Call(LAMBDA named :
             _parse_features(profile_elem, named, DictGet(refs, "FeatureTypeValues", EmptyDict),
                             DictGet(refs, "CountryValues", EmptyDict), locations_map, id_docs_map),
         Call(LAMBDA overlaid : Identities(overlaid, profile_elem, refs),
              Overlay([record EXCEPT !.sdn_type =
                          SubtypeOf(DictGet(refs, "PartySubTypeValues", EmptyDict),
                                    Attr(profile_elem, "PartySubTypeID", ""))],
                      sanctions_map, Attr(profile_elem, "ID", ""))))

\* a skip of the parties that have no FixedRef attribute only
SkipPartyMissingOnly(dp) == ~HasKey(dp.attrs, "FixedRef")

\* "if not fixed_ref: continue"
SkipParty(dp) == Strip(Attr(dp, "FixedRef", "")) = ""

\* the last DateOfIssue child of the root, a loop without the break
PublicationDateLast(root) ==
    IF Len(_iter_tag(root, "DateOfIssue")) = 0 THEN None
    ELSE Some(Text(_iter_tag(root, "DateOfIssue")[Len(_iter_tag(root, "DateOfIssue"))]))

\* the first DateOfIssue child of the root
PublicationDate(root) ==
    LET found == _find_tag(root, "DateOfIssue")
    IN  IF found = None THEN None ELSE Some(Text(The(found)))

\* one child of the DistinctParties block folded into [status, records]; status
\* "ValueError" is the exception int() raises, which ends the call
DistinctParty(acc, dp, id, pubDate, ingestion_ts, refs, locations_map, id_docs_map, sanctions_map) ==
    IF acc.status # "ok" \/ _local_tag(dp.tag) # "DistinctParty" \/ SkipParty(dp) THEN acc
    ELSE IF ~id.ok THEN [status |-> "ValueError", records |-> <<>>]
    ELSE [acc EXCEPT !.records = Append(@,
             ForEach(LAMBDA r, profile_elem :
                         Profile(r, profile_elem, refs, locations_map, id_docs_map, sanctions_map),
                     NewRecord(id.val, pubDate, ingestion_ts),
                     _iter_tag(dp, "Profile")))]

\* pass 2, the loop over the first DistinctParties block
Pass2(root, pubDate, ingestion_ts, refs, locations_map, id_docs_map, sanctions_map) ==
    ForEach(LAMBDA acc, dp :
                DistinctParty(acc, dp, IntOf(Strip(Attr(dp, "FixedRef", ""))), pubDate,
                              ingestion_ts, refs, locations_map, id_docs_map, sanctions_map),
            [status |-> "ok", records |-> <<>>],
            FirstBlock(root, "DistinctParties"))

\* pass 1 after the reference maps: the locations, ID documents and sanctions maps
Pass1(root, pubDate, ingestion_ts, refs) ==
    Call(LAMBDA maps : Pass2(root, pubDate, ingestion_ts, refs,
                             maps.locations, maps.id_docs, maps.sanctions),
         [locations |-> _build_locations_map(root, DictGet(refs, "CountryValues", EmptyDict),
                                             DictGet(refs, "LocPartTypeValues", EmptyDict)),
          id_docs |-> _build_id_docs_map(root, DictGet(refs, "CountryValues", EmptyDict),
                                         DictGet(refs, "IDRegDocTypeValues", EmptyDict)),
          sanctions |-> _build_sanctions_map(root, DictGet(refs, "LegalBasisValues", EmptyDict),
                                             DictGet(refs, "SanctionsProgramValues", EmptyDict))])

\* what the caller gets: the returned pair, or the exception
Returned(out, pubDate) ==
    [status |-> out.status,
     pub_date |-> IF out.status = "ok" THEN pubDate ELSE None,
     records |-> out.records]

parse_ofac_advanced_xml(root, ingestion_ts) ==
    Call(LAMBDA first : Returned(Pass1(root, first.pub_date, ingestion_ts, first.refs),
                                 first.pub_date),
         [pub_date |-> PublicationDate(root), refs |-> _build_ref_maps(root)])

\* ET.fromstring(xml_bytes): the root element of bytes that are well-formed
\* XML, and ET.ParseError for the others
fromstring(xml_bytes) ==
    IF xml_bytes.well_formed THEN [raised |-> None, root |-> Some(xml_bytes.root)]
    ELSE [raised |-> Some("ParseError"), root |-> None]

\* an except clause that lets the exception through as it is
ReraisedAsIs(exc) == exc

\* "except ET.ParseError as exc: raise ValueError(...) from exc"
Reraised(exc) == "ValueError"

\* parse_ofac_advanced_xml from the bytes on
ParseBytes(xml_bytes, ingestion_ts) ==
    IF fromstring(xml_bytes).raised # None
    THEN [status |-> Reraised(The(fromstring(xml_bytes).raised)), pub_date |-> None, records |-> <<>>]
    ELSE parse_ofac_advanced_xml(The(fromstring(xml_bytes).root), ingestion_ts)

\* a collapse in two steps: a struct of nulls becomes null, and an empty string
\* in a struct that stays becomes null
_strip_blank_first(d, nullable, strings) ==
    IF /\ DOMAIN d = nullable \cup strings
       /\ \A k \in nullable : d[k] = None
       /\ \A k \in strings : d[k] = ""
    THEN None
    ELSE Some([k \in DOMAIN d |-> IF k \in nullable /\ d[k] = Some("") THEN None ELSE d[k]])

\* _strip_empty_struct for a dict d whose values are nullable strings (nullable),
\* strings (strings) or lists (the other fields, which are neither None nor "")
_strip_empty_struct(d, nullable, strings) ==
    IF /\ DOMAIN d = nullable \cup strings
       /\ \A k \in nullable : d[k] = None \/ d[k] = Some("")
       /\ \A k \in strings : d[k] = ""
    THEN None
    ELSE Some(d)

clean_record(record) ==
    [record EXCEPT
        !.vessel_info = IF @ # None THEN _strip_empty_struct(The(@), VesselFields, {}) ELSE @,
        !.aircraft_info = IF @ # None THEN _strip_empty_struct(The(@), AircraftFields, {}) ELSE @,
        !.primary_name = IF @ # None THEN _strip_empty_struct(The(@), {}, {"full_name"}) ELSE @]

(***************************************************************************)
(* Input documents                                                         *)
(***************************************************************************)
\* how many DistinctParty elements, SanctionsEntry elements, Alias elements
\* and Feature elements the documents vary over
MaxParties == 2

MaxEntries == 2

MaxAliases == 2

MaxFeatures == 2

Leaf(tag, text) == Elem(tag, NoAttrs, text, <<>>)

Node(tag, children) == Elem(tag, NoAttrs, "", children)

Item(tag, id, text) == Elem(tag, "ID" :> id, text, <<>>)

SubType(id, party_type_id, text) ==
    Elem("PartySubType", ("ID" :> id) @@ ("PartyTypeID" :> party_type_id), text, <<>>)

\* the ReferenceValueSets block every document carries
ReferenceValueSets ==
    Node("{urn:ofac}ReferenceValueSets", <<
        Node("AliasTypeValues", << Item("AliasType", "1", "A.K.A."), Item("AliasType", "2", "F.K.A.") >>),
        Node("PartySubTypeValues", << SubType("1", "1", "Unknown"), SubType("2", "2", "Vessel"),
                                      SubType("3", "9", ""), SubType("4", "2", " Unknown "),
                                      SubType("5", "1", "unknown"), SubType("6", "1", "") >>),
        Node("PartyTypeValues", << Item("PartyType", "1", "Individual"), Item("PartyType", "2", "Entity") >>),
        Node("NamePartTypeValues", << Item("NamePartType", "1", "Last Name"),
                                      Item("NamePartType", "2", "First Name"),
                                      Item("NamePartType", "3", "Middle Name"),
                                      Item("NamePartType", "4", "Nickname"),
                                      Item("NamePartType", "5", "Patronymic"),
                                      Item("NamePartType", "6", " matronymic "),
                                      Item("NamePartType", "8", "Entity Name") >>),
        Node("ScriptValues", << Item("Script", "1", "Latin") >>),
        Node("CountryValues", << Item("Country", "1", "Lebanon"), Item("Country", "2", " "),
                                 Item("Country", "3", "Iran") >>),
        Node("LocPartTypeValues", << Item("LocPartType", "1", "CITY"), Item("LocPartType", "2", "ADDRESS1"),
                                     Item("LocPartType", "3", "STATE/PROVINCE"),
                                     Item("LocPartType", "4", "Unknown"),
                                     Item("LocPartType", "5", "POSTAL CODE"),
                                     Item("LocPartType", "6", "REGION"),
                                     Item("LocPartType", "7", "Zip"),
                                     Item("LocPartType", "8", "Address of the City"),
                                     Item("LocPartType", "9", "Region or Province") >>),
        Node("IDRegDocTypeValues", << Item("IDRegDocType", "1", "Passport") >>),
        Node("FeatureTypeValues", << Item("FeatureType", "1", "Birthdate"),
                                     Item("FeatureType", "2", "Place of Birth"),
                                     Item("FeatureType", "3", "Nationality Country"),
                                     Item("FeatureType", "4", "Citizenship Country"),
                                     Item("FeatureType", "5", "Location"),
                                     Item("FeatureType", "6", "Vessel Call Sign"),
                                     Item("FeatureType", "7", "Aircraft Manufacturer's Serial Number (MSN)"),
                                     Item("FeatureType", "8", "Gender"),
                                     Item("FeatureType", "9", "Additional Sanctions Information -"),
                                     Item("FeatureType", "10", "Vessel Flag"),
                                     Item("FeatureType", "11", "Vessel Flag / Vessel Type"),
                                     Item("FeatureType", "12", "Aircraft Operator (IMO, MMSI)"),
                                     Item("FeatureType", "13", " AIRCRAFT MANUFACTURER ") >>),
        Node("LegalBasisValues", <<
            Elem("LegalBasis", "ID" :> "1", "", << Leaf("LegalBasisShortRef", "EO 13224") >>),
            Elem("LegalBasis", "ID" :> "2", "", <<>>),
            Elem("LegalBasis", "ID" :> "3", "", << Elem("LegalBasisShortRef", NoAttrs, " EO 13382 ",
                                                       << Leaf("Note", "n") >>) >>),
            Elem("LegalBasis", "ID" :> "4", "EO 1", << Leaf("LegalBasisShortRef", " ") >>) >>) >>)

LocPart(type_id, value) ==
    Elem("LocationPart", "LocPartTypeID" :> type_id, "", << Leaf("LocationPartValue", value) >>)

\* L1 has a city, an address and a country; L2 has nothing; L3 only a country
Locations ==
    Node("Locations", <<
        Elem("Location", "ID" :> "L1", "", <<
            Elem("LocationCountry", "CountryID" :> "1", "", <<>>),
            LocPart("1", "Beirut"), LocPart("2", "12 Main St") >>),
        Elem("Location", "ID" :> "L2", "", << LocPart("1", " ") >>),
        Elem("Location", "ID" :> "L3", "", << Elem("LocationCountry", "CountryID" :> "3", "", <<>>) >>) >>)

DateFrom(year, month, day) ==
    Node("From", << Leaf("Year", year), Leaf("Month", month), Leaf("Day", day) >>)

IDRegDocuments ==
    Node("IDRegDocuments", <<
        Elem("IDRegDocument", ("ID" :> "D1") @@ ("IDRegDocTypeID" :> "1"), "", <<
            Leaf("IDRegDocumentID", " A123 "),
            Elem("IssuingCountry", "CountryID" :> "1", "", <<>>),
            Node("IDRegDocDateOfIssuance", << Node("Start", << DateFrom("2001", "2", "") >>) >>) >>) >>)

NamePart(group_id, text) ==
    Node("DocumentedNamePart",
         << Elem("NamePartValue", ("NamePartGroupID" :> group_id) @@ ("ScriptID" :> "1"), text, <<>>) >>)

DocName(parts) == Node("DocumentedName", parts)

\* group G1 is a last name, G2 a first name, G3 a middle name, G5 a patronymic,
\* G6 a matronymic, G8 an entity name; G4 refers to a name-part type the
\* reference values do not have; G9 is no group at all
NamePartGroups ==
    Node("NamePartGroups", <<
        Node("MasterNamePartGroup", << Elem("NamePartGroup", ("ID" :> "G1") @@ ("NamePartTypeID" :> "1"), "", <<>>) >>),
        Node("MasterNamePartGroup", << Elem("NamePartGroup", ("ID" :> "G2") @@ ("NamePartTypeID" :> "2"), "", <<>>),
                                       Elem("NamePartGroup", ("ID" :> "G3") @@ ("NamePartTypeID" :> "3"), "", <<>>) >>),
        Node("MasterNamePartGroup", << Elem("NamePartGroup", ("ID" :> "G4") @@ ("NamePartTypeID" :> "7"), "", <<>>),
                                       Elem("NamePartGroup", ("ID" :> "G5") @@ ("NamePartTypeID" :> "5"), "", <<>>),
                                       Elem("NamePartGroup", ("ID" :> "G6") @@ ("NamePartTypeID" :> "6"), "", <<>>),
                                       Elem("NamePartGroup", ("ID" :> "G8") @@ ("NamePartTypeID" :> "8"), "", <<>>) >>) >>)

Identity(aliases) == Node("Identity", aliases \o << NamePartGroups >>)

PrimaryAlias(last_name) ==
    Elem("Alias", ("Primary" :> "true") @@ ("AliasTypeID" :> "1"), "",
         << DocName(<< NamePart("G1", last_name) >>) >>)

Party(fixed_ref_attrs, profile_id, subtype_id, identities, features) ==
    Elem("{urn:ofac}DistinctParty", fixed_ref_attrs, "", <<
        Leaf("Comment", ""),
        Elem("{urn:ofac}Profile", ("ID" :> profile_id) @@ ("PartySubTypeID" :> subtype_id), "",
             identities \o features) >>)

\* a document whose second DistinctParties block has one party with that FixedRef
DocumentWith(parties, entries, later_ref) ==
    Node("{urn:ofac}Sanctions", <<
        Leaf("DateOfIssue", " 2026-01-02 "),
        ReferenceValueSets, Locations, IDRegDocuments,
        Node("{urn:ofac}DistinctParties", parties),
        Node("SanctionsEntries", entries),
        Node("{urn:ofac}DistinctParties",
             << Party("FixedRef" :> later_ref, "P9", "2", << Identity(<< PrimaryAlias("LATER") >>) >>, <<>>) >>) >>)

Document(parties, entries) == DocumentWith(parties, entries, "99")

\* the FixedRef of the party in the second block: an integer and one that is none
LaterRefs == {"99", "y2"}

\* the sequences of length lo..hi over the indices of samples
Choices(samples, lo, hi) == UNION {[1..k -> 1..Len(samples)] : k \in lo..hi}

Pick(samples, choice) == [i \in 1..Len(choice) |-> samples[choice[i]]]

\* FixedRef attributes: integers (two of them equal as integers), zero, a
\* negative one, one that is no integer, a blank one and a missing one
FixedRefSamples ==
    << "FixedRef" :> "7", "FixedRef" :> "8", "FixedRef" :> " 07 ", "FixedRef" :> "0",
       "FixedRef" :> "-3", "FixedRef" :> "x1", "FixedRef" :> " ", NoAttrs >>

LastNames == << "ALPHA", "BRAVO", "CHARLIE", "DELTA" >>

ProfileIds == << "P1", "P2", "P3", "P4" >>

\* parties that differ in FixedRef; the i-th has profile P<i> and its own name
PartyDocuments ==
    { DocumentWith([i \in 1..Len(v[1]) |->
                        Party(FixedRefSamples[v[1][i]], ProfileIds[i], "1",
                              << Identity(<< PrimaryAlias(LastNames[i]) >>) >>, <<>>)],
                   << >>, v[2]) : v \in Choices(FixedRefSamples, 0, MaxParties) \X LaterRefs }

\* what a document starts with: no DateOfIssue, one, an empty one, two that
\* differ, and one that is not a child of the root
DateSamples ==
    << << >>,
       << Leaf("DateOfIssue", " 2026-01-02 ") >>,
       << Leaf("{urn:ofac}DateOfIssue", "") >>,
       << Leaf("Version", "3"), Leaf("{urn:ofac}DateOfIssue", "2026-01-02"),
          Leaf("DateOfIssue", " 2025-12-31") >>,
       << Node("Header", << Leaf("DateOfIssue", "1999-01-01") >>) >> >>

\* root with its DateOfIssue child replaced by those elements
WithDates(root, dates) == [root EXCEPT !.children = dates \o Tail(@)]

DateRefSamples == << "FixedRef" :> "7", "FixedRef" :> "8", "FixedRef" :> " " >>

\* documents that differ in their DateOfIssue children and in their parties
DateDocuments ==
    { WithDates(Document([i \in 1..Len(v[1]) |->
                             Party(DateRefSamples[v[1][i]], ProfileIds[i], "1",
                                   << Identity(<< PrimaryAlias(LastNames[i]) >>) >>, <<>>)],
                         << >>),
                DateSamples[v[2]])
        : v \in Choices(DateRefSamples, 0, MaxParties) \X (1..Len(DateSamples)) }

\* vessel_info values: null, a struct of nulls, one whose only value is the
\* empty string, and one with a value
VesselInfoSamples ==
    << None,
       Some([k \in VesselFields |-> None]),
       Some([k \in VesselFields |-> IF k = "vessel_call_sign" THEN Some("") ELSE None]),
       Some([k \in VesselFields |-> IF k = "vessel_type" THEN Some("Tanker") ELSE None]) >>

AircraftInfoSamples ==
    << None,
       Some([k \in AircraftFields |-> IF k = "aircraft_type" THEN Some("") ELSE None]),
       Some([k \in AircraftFields |-> IF k = "aircraft_serial" THEN Some("S1") ELSE Some("")]) >>

\* primary_name values: null, an empty full_name alone, an empty full_name
\* with an empty list of parts, and a name
PrimaryNameSamples ==
    << None,
       Some([full_name |-> ""]),
       Some([full_name |-> "", name_parts |-> <<>>]),
       Some([full_name |-> "ALPHA",
             name_parts |-> << [part_type |-> "Last Name", part_value |-> "ALPHA", script |-> ""] >>]) >>

\* the records CleanRecordFn can be handed, whatever made them
RecordSamples ==
    { [NewRecord(7, Some("2026-01-02"), "2026-01-01T00:00:00.000000Z") EXCEPT
          !.vessel_info = VesselInfoSamples[v[1]],
          !.aircraft_info = AircraftInfoSamples[v[2]],
          !.primary_name = PrimaryNameSamples[v[3]]]
        : v \in (1..Len(VesselInfoSamples)) \X (1..Len(AircraftInfoSamples))
                   \X (1..Len(PrimaryNameSamples)) }

\* the PartySubTypeID of a Profile: the subtypes of the reference values and
\* one they do not have
SubtypeIds == << "1", "2", "3", "4", "5", "6", "9" >>

\* root without the value sets of that name
WithoutValueSet(root, set_name) ==
    [root EXCEPT !.children =
        [i \in 1..Len(@) |->
            IF _local_tag(@[i].tag) # "ReferenceValueSets" THEN @[i]
            ELSE [@[i] EXCEPT !.children = SelectSeq(@, LAMBDA e : _local_tag(e.tag) # set_name)]]]

\* parties that differ in their subtype, in documents with and without
\* PartyTypeValues
SubtypeDocuments ==
    LET with == { Document([i \in 1..Len(c) |->
                               Party(FixedRefSamples[i], ProfileIds[i], SubtypeIds[c[i]],
                                     << Identity(<< PrimaryAlias(LastNames[i]) >>) >>, <<>>)],
                           << >>) : c \in Choices(SubtypeIds, 0, MaxParties) }
    IN  with \cup { WithoutValueSet(d, "PartyTypeValues") : d \in with }

Measure(comments) ==
    Node("SanctionsMeasure", [i \in 1..Len(comments) |-> Leaf("Comment", comments[i])])

Event(legal_basis_id) == Elem("EntryEvent", "LegalBasisID" :> legal_basis_id, "", <<>>)

Entry(profile_attrs, children) == Elem("SanctionsEntry", profile_attrs, "", children)

EntrySamples ==
    << Entry("ProfileID" :> "P1", << Event("1"), Measure(<< "SDGT" >>), Leaf("Remarks", " r1 ") >>),
       Entry("ProfileID" :> "P1", << Measure(<< "SDGT" >>), Measure(<< "IFSR" >>), Event("3") >>),
       Entry("ProfileID" :> "P1", << Measure(<< " IFSR ", " " >>), Leaf("Remarks", "") >>),
       Entry("ProfileID" :> " P1 ", << Measure(<< "NPWMD" >>), Event("1"), Event("1") >>),
       Entry("ProfileID" :> "P2", << Measure(<< "SDGT" >>), Event("2"), Event("4") >>),
       Entry(NoAttrs, << Measure(<< "CUBA" >>), Event("1") >>),
       Entry("ProfileID" :> "P1", << Measure(<< "IFSR", "SDGT", "IFSR" >>), Event("9"), Elem("EntryEvent", NoAttrs, "", <<>>),
                                     Leaf("Remarks", "r2") >>),
       Elem("SanctionsEntryLink", "ProfileID" :> "P1", "", << Measure(<< "SYRIA" >>) >>) >>

\* two parties, profiles P1 and P2, and sanctions entries that vary
SanctionsDocuments ==
    { Document(<< Party("FixedRef" :> "7", "P1", "1", << Identity(<< PrimaryAlias("ALPHA") >>) >>, <<>>),
                  Party("FixedRef" :> "8", "P2", "2", << Identity(<< PrimaryAlias("BRAVO") >>) >>, <<>>) >>,
               Pick(EntrySamples, c)) : c \in Choices(EntrySamples, 1, MaxEntries) }

Alias(attrs, names) == Elem("Alias", attrs, "", names)

NameSamples ==
    << DocName(<< NamePart("G2", "USAMA"), NamePart("G1", "BIN LADIN") >>),
       DocName(<< NamePart("G9", "X"), NamePart("G1", "A"), NamePart("G4", "Y"),
                  NamePart("G2", " B "), NamePart("G1", "C") >>),
       DocName(<< NamePart("G1", " ") >>),
       DocName(<< NamePart("G3", "M"), NamePart("G2", ""), NamePart("G1", "L") >>),
       DocName(<< NamePart("G6", "MA"), NamePart("G5", "PA"), NamePart("G1", "L"),
                  NamePart("G8", "ENT"), NamePart("G3", "MI") >>) >>

AliasSamples ==
    << Alias(("Primary" :> "true") @@ ("AliasTypeID" :> "1"), << NameSamples[1] >>),
       Alias(("Primary" :> "TRUE") @@ ("AliasTypeID" :> "2"), << NameSamples[2] >>),
       Alias(("Primary" :> " True ") @@ ("LowQuality" :> "false"), << NameSamples[3], NameSamples[4] >>),
       Alias(("Primary" :> "false") @@ ("LowQuality" :> "TRUE") @@ ("AliasTypeID" :> "1"),
             << NameSamples[1], NameSamples[2] >>),
       Alias("AliasTypeID" :> "5", << NameSamples[4] >>),
       Alias("Primary" :> "true", << NameSamples[3] >>),
       Alias("Primary" :> "yes", << NameSamples[2] >>),
       Alias("Primary" :> "true", << NameSamples[4], NameSamples[1] >>),
       Alias(("Primary" :> "false") @@ ("AliasTypeID" :> "2"), << NameSamples[5] >>) >>

\* one party whose aliases vary; its names are split over two Identity elements
IdentityDocuments ==
    { Document(<< Party("FixedRef" :> "7", "P1", "2",
                        << Identity(<< Pick(AliasSamples, c)[1] >>),
                           Identity(Tail(Pick(AliasSamples, c))) >>, <<>>) >>,
               << >>) : c \in Choices(AliasSamples, 1, MaxAliases) }

Feature(type_id, versions) == Elem("Feature", "FeatureTypeID" :> type_id, "", versions)

Version(children) == Node("FeatureVersion", children)

Period(boundaries) == Node("DatePeriod", boundaries)

Detail(attrs, children) == Elem("VersionDetail", attrs, "", children)

VersionLocation(location_id) == Elem("VersionLocation", "LocationID" :> location_id, "", <<>>)

FeatureSamples ==
    << Feature("1", << Version(<< Period(<< Node("Start", << DateFrom("1957", "7", "30") >>),
                                            Node("End", << DateFrom("1958", "", "") >>) >>) >>),
                       Version(<< Period(<< Node("Start", << DateFrom("", "7", "30") >>),
                                            Node("End", << DateFrom("1957", "07", "30") >>) >>) >>) >>),
       Feature("1", << Version(<< Period(<< Node("Start", << DateFrom("1960", "", "") >>) >>),
                                  Period(<< Node("Start", <<>>) >>) >>) >>),
       Feature("3", << Version(<< Detail("CountryID" :> "1", <<>>), Detail("CountryID" :> "2", <<>>),
                                  Detail("CountryID" :> "1", <<>>) >>) >>),
       Feature("4", << Version(<< Detail("CountryID" :> "3", <<>>), Detail("CountryID" :> "9", <<>>) >>),
                       Version(<< Detail("CountryID" :> "3", <<>>) >>) >>),
       Feature("2", << Version(<< VersionLocation("L1"),
                                  Detail(NoAttrs, << Leaf("LocationID", " L1 "), Leaf("LocationID", "L2") >>),
                                  VersionLocation("L3") >>) >>),
       Feature("5", << Version(<< VersionLocation("L1"), VersionLocation("L2"), VersionLocation("L9"),
                                  Detail(NoAttrs, << Elem("IDRegDocumentReference", "DocumentID" :> "D1", "", <<>>),
                                                     Elem("IDRegDocumentReference", "DocumentID" :> "D9", "", <<>>) >>) >>) >>),
       Feature("6", << Version(<< Leaf("Comment", " ") >>) >>),
       Feature("6", << Version(<< Leaf("Comment", " CS1 ") >>) >>),
       Feature("7", << Version(<< Leaf("Comment", "S1"), Leaf("Comment", "S2") >>) >>),
       Feature("8", << Version(<< Leaf("Comment", "Male") >>) >>),
       Feature("9", << Version(<< Leaf("Comment", "Secondary sanctions risk") >>), Version(<<>>) >>),
       Feature("10", << Version(<< Leaf("Comment", "") >>) >>) >>

\* one party whose features vary
FeatureDocuments ==
    { Document(<< Party("FixedRef" :> "7", "P1", "4", << Identity(<< PrimaryAlias("ALPHA") >>) >>,
                        Pick(FeatureSamples, c)) >>,
               << EntrySamples[1] >>) : c \in Choices(FeatureSamples, 1, MaxFeatures) }

(***************************************************************************)
(* The pipeline: ParseXML, then CleanRecords on each record                *)
(***************************************************************************)
\* the values datetime.now() is drawn from
Clock == {"2026-01-01T00:00:00.000000Z", "2026-01-08T00:00:00.000000Z"}

\* ParseOfacXmlFn has been handed bytes and has not run yet; doc is the
\* document the bytes hold, or would hold had they not been damaged
Handed(documents, forms) ==
    /\ doc \in documents
    /\ well_formed \in forms
    /\ pc = "start"
    /\ status = "none"
    /\ pub_date = None
    /\ records = <<>>
    /\ emitted = <<>>
    /\ NoRequest
    /\ NoHeap
    /\ NoInvocation
    /\ twin = None

\* CleanRecordFn has been handed a record
HandedRecord(samples) ==
    /\ doc = Document(<< >>, << >>)
    /\ well_formed = TRUE
    /\ pc = "parsed"
    /\ status = "ok"
    /\ pub_date = Some("2026-01-02")
    /\ \E record \in samples : records = << record >>
    /\ emitted = <<>>
    /\ NoRequest
    /\ NoHeap
    /\ NoInvocation
    /\ twin = None

\* the bytes are well-formed XML
Start(documents) == Handed(documents, {TRUE})

Init ==
    \/ Start(PartyDocuments)
    \/ Start(SanctionsDocuments)
    \/ Start(IdentityDocuments)
    \/ Start(FeatureDocuments)
    \/ Handed(PartyDocuments, {FALSE})
    \/ Start(DateDocuments)
    \/ Start(SubtypeDocuments)

\* what ParseOfacXmlFn.process holds once parse_ofac_advanced_xml has ended
Deliver(result) ==
    /\ status' = result.status
    /\ pub_date' = result.pub_date
    /\ records' = result.records
    /\ pc' = IF result.status = "ok" THEN "parsed" ELSE "failed"

\* ParseOfacXmlFn.process: parse the document
Parse ==
    /\ pc = "start"
    /\ \E ingestion_ts \in Clock :
           Deliver(ParseBytes([well_formed |-> well_formed, root |-> doc], ingestion_ts))
    /\ UNCHANGED <<doc, well_formed, emitted, twin>>
    /\ UNCHANGED apiVars
    /\ UNCHANGED <<heapVars, functionVars>>

\* CleanRecordFn.process: the next parsed record is cleaned and emitted
Clean ==
    /\ pc = "parsed"
    /\ Len(emitted) < Len(records)
    /\ emitted' = Append(emitted, clean_record(records[Len(emitted) + 1]))
    /\ pc' = IF Len(emitted) + 1 = Len(records) THEN "done" ELSE "parsed"
    /\ UNCHANGED <<doc, well_formed, status, pub_date, records, twin>>
    /\ UNCHANGED apiVars
    /\ UNCHANGED <<heapVars, functionVars>>

Next == Parse \/ Clean

Spec == Init /\ [][Next]_vars

\* the pipeline on the documents whose parties vary in FixedRef
SpecParties == Start(PartyDocuments) /\ [][Next]_vars

\* the pipeline on the documents whose sanctions entries vary
SpecSanctions == Start(SanctionsDocuments) /\ [][Next]_vars

\* the pipeline on the documents whose aliases and names vary
SpecIdentity == Start(IdentityDocuments) /\ [][Next]_vars

\* the pipeline on the documents whose features vary
SpecFeatures == Start(FeatureDocuments) /\ [][Next]_vars

\* the pipeline on the documents whose DateOfIssue children vary
SpecDates == Start(DateDocuments) /\ [][Next]_vars

\* clean_record on the records of the parser and on records of any making
SpecClean == (Start(DateDocuments) \/ HandedRecord(RecordSamples)) /\ [][Next]_vars

\* the pipeline on the documents whose parties vary in subtype
SpecSubtypes == Start(SubtypeDocuments) /\ [][Next]_vars

\* the pipeline on bytes that are well-formed or not
SpecBytes == Handed(PartyDocuments, BOOLEAN) /\ [][Next]_vars

(***************************************************************************)
(* Documents whose DatePeriod boundaries vary                              *)
(***************************************************************************)
\* how many boundaries a DatePeriod has at most
MaxBoundaries == 2

\* boundaries: a full date, an earlier date without a day, a blank year, a
\* year and a day without a month, no From, a tag that is neither Start nor
\* End, and two From children of which the first has no year
BoundarySamples ==
    << Node("Start", << DateFrom("1958", "7", "30") >>),
       Node("End", << DateFrom("1957", "12", "") >>),
       Node("Start", << DateFrom(" ", "7", "30") >>),
       Node("End", << Node("From", << Leaf("Year", " 1960 "), Leaf("Day", "5") >>) >>),
       Node("Start", << >>),
       Node("Other", << DateFrom("1900", "1", "1") >>),
       Node("Start", << DateFrom("", "", ""), DateFrom("1901", "1", "1") >>) >>

\* one party with one Birthdate feature of one version with one DatePeriod
PeriodDocuments ==
    { Document(<< Party("FixedRef" :> "7", "P1", "1", << Identity(<< PrimaryAlias("ALPHA") >>) >>,
                        << Feature("1", << Version(<< Period(Pick(BoundarySamples, c)) >>) >>) >>) >>,
               << >>) : c \in Choices(BoundarySamples, 0, MaxBoundaries) }

\* the pipeline on the documents whose DatePeriod boundaries vary
SpecPeriods == Start(PeriodDocuments) /\ [][Next]_vars

(***************************************************************************)
(* Documents whose vessel and aircraft features vary                       *)
(***************************************************************************)
\* features whose type name holds one key, two keys of one table, keys of
\* both tables, or a key with an empty comment, and one with two versions
FieldFeatureSamples ==
    << Feature("7", << Version(<< Leaf("Comment", "S1") >>) >>),
       Feature("11", << Version(<< Leaf("Comment", "F1") >>) >>),
       Feature("12", << Version(<< Leaf("Comment", " X1 ") >>) >>),
       Feature("10", << Version(<< Leaf("Comment", " ") >>) >>),
       Feature("13", << Version(<< Leaf("Comment", "Boeing") >>) >>),
       Feature("7", << Version(<< Leaf("Comment", "S2"), Leaf("Comment", "S3") >>),
                       Version(<< >>) >>),
       Feature("13", << Version(<< Leaf("Comment", "Airbus") >>),
                        Version(<< Leaf("Comment", "") >>) >>) >>

\* one party whose vessel and aircraft features vary
FieldDocuments ==
    { Document(<< Party("FixedRef" :> "7", "P1", "2", << Identity(<< PrimaryAlias("ALPHA") >>) >>,
                        Pick(FieldFeatureSamples, c)) >>,
               << >>) : c \in Choices(FieldFeatureSamples, 1, MaxFeatures) }

\* the pipeline on the documents whose vessel and aircraft features vary
SpecFields == Start(FieldDocuments) /\ [][Next]_vars

(***************************************************************************)
(* Documents whose Location varies                                         *)
(***************************************************************************)
\* how many LocationPart children the Location has at most
MaxLocParts == 2

\* parts of every type, among them one whose type name holds two of the
\* tested words, one of a type the table does not have, one whose value
\* begins with a comma, and one whose first LocationPartValue is blank
LocPartSamples ==
    << LocPart("1", " Beirut "), LocPart("2", "12 Main St"), LocPart("3", "Mount Lebanon"),
       LocPart("5", "1100"), LocPart("6", "Levant"), LocPart("4", "Suite 5"),
       LocPart("8", "Tyre"), LocPart("9", "Bekaa"), LocPart("7", "2038"),
       LocPart("99", "PO Box 7"), LocPart("4", ",Annex"),
       Elem("LocationPart", "LocPartTypeID" :> "1", "",
            << Leaf("LocationPartValue", " "), Leaf("LocationPartValue", "Ghost") >>) >>

\* the LocationCountry children the Location has: none, or Lebanon
CountrySamples == { << >>, << Elem("LocationCountry", "CountryID" :> "1", "", << >>) >> }

\* root with the children of its Locations block replaced
WithLocations(root, locations) ==
    [root EXCEPT !.children = [i \in DOMAIN @ |->
        IF _local_tag(@[i].tag) = "Locations" THEN Node("Locations", locations) ELSE @[i]]]

\* one party with a Location feature, a Place of Birth feature that names the
\* location twice, and a Birthdate feature that names it and a location the
\* document does not have; location L1 varies
LocationDocuments ==
    { WithLocations(
          Document(<< Party("FixedRef" :> "7", "P1", "1", << Identity(<< PrimaryAlias("ALPHA") >>) >>,
                            << Feature("5", << Version(<< VersionLocation("L1") >>) >>),
                               Feature("2", << Version(<< VersionLocation("L1"),
                                                          VersionLocation("L1") >>) >>),
                               Feature("1", << Version(<< Detail(NoAttrs,
                                                   << Leaf("LocationID", " L1 "),
                                                      Leaf("LocationID", "L9") >>) >>) >>) >>) >>,
                   << >>),
          << Elem("Location", "ID" :> "L1", "", v[1] \o Pick(LocPartSamples, v[2])) >>)
        : v \in CountrySamples \X Choices(LocPartSamples, 0, MaxLocParts) }

\* the pipeline on the documents whose Location varies
SpecLocations == Start(LocationDocuments) /\ [][Next]_vars

(***************************************************************************)
(* Documents whose Remarks vary                                            *)
(***************************************************************************)
\* entries of profile P1 with a remark, an empty one, none, two of which the
\* last or the first is empty, and an entry of another profile
RemarksSamples ==
    << Entry("ProfileID" :> "P1", << Leaf("Remarks", " r1 ") >>),
       Entry("ProfileID" :> "P1", << Measure(<< "SDGT" >>), Leaf("Remarks", " ") >>),
       Entry("ProfileID" :> "P1", << Leaf("Remarks", "r2"), Measure(<< "IFSR" >>) >>),
       Entry("ProfileID" :> "P1", << Leaf("Remarks", "r3"), Leaf("Remarks", "") >>),
       Entry("ProfileID" :> "P1", << Leaf("Remarks", ""), Leaf("Remarks", "r4") >>),
       Entry("ProfileID" :> "P1", << Measure(<< "SDGT" >>) >>),
       Entry("ProfileID" :> "P2", << Leaf("Remarks", "r5") >>) >>

\* one party of profile P1 and sanctions entries whose Remarks vary
RemarksDocuments ==
    { Document(<< Party("FixedRef" :> "7", "P1", "1", << Identity(<< PrimaryAlias("ALPHA") >>) >>, <<>>) >>,
               Pick(RemarksSamples, c)) : c \in Choices(RemarksSamples, 0, MaxEntries) }

\* the pipeline on the documents whose Remarks vary
SpecRemarks == Start(RemarksDocuments) /\ [][Next]_vars

(***************************************************************************)
(* parse_ofac_advanced_xml object by object: which lists and dicts of the  *)
(* lookup maps and of the records are one object and which are copies.     *)
(* An object has an address; heap maps every address to what the object    *)
(* holds now. The objects of pass 1 are addressed by map and key, the      *)
(* objects of pass 2 by the order in which they are made.                  *)
(***************************************************************************)
\* how many times the caller changes a record it was returned
MaxChanges == 1

\* the address of the next object pass 2 makes
NextRef(h) == <<"object", "", Cardinality({a \in DOMAIN h : a[1] = "object"}) + 1>>

\* a new object that holds v
Allocated(h, v) == [heap |-> DictSet(h, NextRef(h), v), ref |-> NextRef(h)]

\* no copy: the object of the map itself
Shared(h, ref) == [heap |-> h, ref |-> ref]

\* dict(x), list(x) and the addr_entry literal: a new object with the items of x
CopyOf(h, ref) == Allocated(h, h[ref])

\* the local variables of the call after pass 1, with the lookup maps as values
LocalsOf(root, ingestion_ts) ==
    Call(LAMBDA refs :
             [refs |-> refs, pub_date |-> PublicationDate(root), ingestion_ts |-> ingestion_ts,
              locations |-> _build_locations_map(root, DictGet(refs, "CountryValues", EmptyDict),
                                                 DictGet(refs, "LocPartTypeValues", EmptyDict)),
              id_docs |-> _build_id_docs_map(root, DictGet(refs, "CountryValues", EmptyDict),
                                             DictGet(refs, "IDRegDocTypeValues", EmptyDict)),
              sanctions |-> _build_sanctions_map(root, DictGet(refs, "LegalBasisValues", EmptyDict),
                                                 DictGet(refs, "SanctionsProgramValues", EmptyDict))],
         _build_ref_maps(root))

\* the objects the three lookup maps hold
MapObjects(locals) ==
    [a \in {<<"locations", id, 0>> : id \in DOMAIN locals.locations}
           \cup {<<"id_docs", id, 0>> : id \in DOMAIN locals.id_docs}
           \cup {<<"programs", id, 0>> : id \in DOMAIN locals.sanctions}
           \cup {<<"legal_authorities", id, 0>> : id \in DOMAIN locals.sanctions} |->
        IF a[1] = "locations" THEN locals.locations[a[2]]
        ELSE IF a[1] = "id_docs" THEN locals.id_docs[a[2]]
        ELSE IF a[1] = "programs" THEN locals.sanctions[a[2]].programs
        ELSE locals.sanctions[a[2]].legal_authorities]

\* the local variables, with the lookup maps as addresses
MapAddresses(locals) ==
    [locals EXCEPT
        !.locations = [id \in DOMAIN @ |-> <<"locations", id, 0>>],
        !.id_docs = [id \in DOMAIN @ |-> <<"id_docs", id, 0>>],
        !.sanctions = [id \in DOMAIN @ |-> [programs |-> <<"programs", id, 0>>,
                                            legal_authorities |-> <<"legal_authorities", id, 0>>,
                                            remarks |-> @[id].remarks]]]

\* the lookup maps as the objects hold them in h
MapValues(h, locals) ==
    [locals EXCEPT
        !.locations = [id \in DOMAIN @ |-> h[@[id]]],
        !.id_docs = [id \in DOMAIN @ |-> h[@[id]]],
        !.sanctions = [id \in DOMAIN @ |-> [programs |-> h[@[id].programs],
                                            legal_authorities |-> h[@[id].legal_authorities],
                                            remarks |-> @[id].remarks]]]

\* _apply_location on objects: an address entry is a new dict
LocationObject(st, loc_ref, ft_name) ==
    IF Contains("birth", ft_name) /\ Contains("place", ft_name) THEN st
    ELSE IF \E k \in DOMAIN st.heap[loc_ref] : st.heap[loc_ref][k] # ""
    THEN Call(LAMBDA copy : [st EXCEPT !.heap = copy.heap, !.addresses = Append(@, copy.ref)],
              CopyOf(st.heap, loc_ref))
    ELSE st

\* the children of a VersionDetail
DetailObjects(st, fvc, ft_name, locals) ==
    ForEach(LAMBDA s, vdc :
                IF _local_tag(vdc.tag) = "LocationID"
                THEN IF Text(vdc) # "" /\ HasKey(locals.locations, Text(vdc))
                     THEN LocationObject(s, locals.locations[Text(vdc)], ft_name)
                     ELSE s
                ELSE IF _local_tag(vdc.tag) = "IDRegDocumentReference"
                THEN IF Attr(vdc, "DocumentID", "") # ""
                        /\ HasKey(locals.id_docs, Attr(vdc, "DocumentID", ""))
                     THEN Call(LAMBDA copy : [s EXCEPT !.heap = copy.heap,
                                                       !.id_documents = Append(@, copy.ref)],
                               CopyOf(s.heap, locals.id_docs[Attr(vdc, "DocumentID", "")]))
                     ELSE s
                ELSE s,
            st, fvc.children)

\* the children of a FeatureVersion
VersionObjects(st, fv, ft_name, locals) ==
    ForEach(LAMBDA s, fvc :
                IF _local_tag(fvc.tag) = "VersionDetail"
                THEN DetailObjects(s, fvc, ft_name, locals)
                ELSE IF _local_tag(fvc.tag) = "VersionLocation"
                THEN IF Attr(fvc, "LocationID", "") # ""
                        /\ HasKey(locals.locations, Attr(fvc, "LocationID", ""))
                     THEN LocationObject(s, locals.locations[Attr(fvc, "LocationID", "")], ft_name)
                     ELSE s
                ELSE s,
            st, fv.children)

\* _parse_features on objects
FeatureObjects(st, profile_elem, locals) ==
    ForEach(LAMBDA s1, feature :
                ForEach(LAMBDA s2, fv :
                            VersionObjects(s2, fv,
                                Lower(DictGet(DictGet(locals.refs, "FeatureTypeValues", EmptyDict),
                                              Attr(feature, "FeatureTypeID", ""), "")),
                                locals),
                        s1, _iter_tag(feature, "FeatureVersion")),
            st, _iter_tag(profile_elem, "Feature"))

\* list(se.get("programs", [])) and list(se.get("legal_authorities", []))
OverlayObjects(st, profile_id, locals) ==
    IF HasKey(locals.sanctions, profile_id)
    THEN Call(LAMBDA first :
                  Call(LAMBDA second : [st EXCEPT !.heap = second.heap, !.programs = first.ref,
                                                  !.legal_authorities = second.ref],
                       CopyOf(first.heap, locals.sanctions[profile_id].legal_authorities)),
              CopyOf(st.heap, locals.sanctions[profile_id].programs))
    ELSE st

\* the record literal: two new empty lists of strings, and two empty lists of dicts
LiteralObjects(h) ==
    Call(LAMBDA first :
             Call(LAMBDA second : [heap |-> second.heap, programs |-> first.ref,
                                   legal_authorities |-> second.ref,
                                   addresses |-> <<>>, id_documents |-> <<>>],
                  Allocated(first.heap, <<>>)),
         Allocated(h, <<>>))

\* the objects of the record of one DistinctParty
RecordObjects(h, dp, locals) ==
    ForEach(LAMBDA st, profile_elem :
                FeatureObjects(OverlayObjects(st, Attr(profile_elem, "ID", ""), locals),
                               profile_elem, locals),
            LiteralObjects(h), _iter_tag(dp, "Profile"))

\* the record of one DistinctParty as pass 2 computes it from what the maps hold
RecordValue(h, dp, locals) ==
    Call(LAMBDA maps :
             DistinctParty([status |-> "ok", records |-> <<>>], dp,
                           IntOf(Strip(Attr(dp, "FixedRef", ""))), locals.pub_date,
                           locals.ingestion_ts, locals.refs,
                           maps.locations, maps.id_docs, maps.sanctions).records[1],
         MapValues(h, locals))

\* two parties at most; they share locations L1 and L2, document D1 and profiles
CopyPartySamples ==
    << <<"P1", << FeatureSamples[6] >> >>,
       <<"P1", << FeatureSamples[5], FeatureSamples[6] >> >>,
       <<"P2", << FeatureSamples[6] >> >>,
       <<"P2", << FeatureSamples[7] >> >>,
       <<"P3", << >> >> >>

CopyDocuments ==
    { Document([i \in 1..Len(c) |->
                    Party(FixedRefSamples[i], CopyPartySamples[c[i]][1], "1",
                          << Identity(<< PrimaryAlias(LastNames[i]) >>) >>,
                          CopyPartySamples[c[i]][2])],
               << EntrySamples[1], EntrySamples[5] >>) : c \in Choices(CopyPartySamples, 1, MaxParties) }

\* the parser has been handed a document and is followed object by object
StartObjects(documents) ==
    /\ doc \in documents
    /\ well_formed = TRUE
    /\ pc = "done"
    /\ status = "none"
    /\ pub_date = None
    /\ records = <<>>
    /\ emitted = <<>>
    /\ NoRequest
    /\ NoHeap
    /\ NoInvocation
    /\ twin = None

\* pass 1: the three lookup maps are built
BuildMaps ==
    /\ hpc = 0
    /\ made = <<>>
    /\ \E ingestion_ts \in Clock :
           /\ heap' = MapObjects(LocalsOf(doc, ingestion_ts))
           /\ lookups' = MapAddresses(LocalsOf(doc, ingestion_ts))
    /\ hpc' = 1
    /\ UNCHANGED <<made, changes>>
    /\ UNCHANGED <<pipelineVars, apiVars, functionVars>>

\* pass 2: the next child of the first DistinctParties block
EmitParty ==
    /\ hpc >= 1
    /\ hpc <= Len(FirstBlock(doc, "DistinctParties"))
    /\ LET dp == FirstBlock(doc, "DistinctParties")[hpc]
       IN  IF _local_tag(dp.tag) # "DistinctParty" \/ SkipParty(dp)
           THEN /\ hpc' = hpc + 1
                /\ UNCHANGED <<heap, made>>
           ELSE IF ~IntOf(Strip(Attr(dp, "FixedRef", ""))).ok
           THEN /\ hpc' = Len(FirstBlock(doc, "DistinctParties")) + 1
                /\ made' = <<>>
                /\ UNCHANGED heap
           ELSE /\ hpc' = hpc + 1
                /\ \E st \in {RecordObjects(heap, dp, lookups)} :
                       /\ heap' = st.heap
                       /\ made' = Append(made, [record |-> RecordValue(heap, dp, lookups),
                                                programs |-> st.programs,
                                                legal_authorities |-> st.legal_authorities,
                                                addresses |-> st.addresses,
                                                id_documents |-> st.id_documents])
    /\ UNCHANGED <<lookups, changes>>
    /\ UNCHANGED <<pipelineVars, apiVars, functionVars>>

\* the call has returned its records
HasReturned == hpc > Len(FirstBlock(doc, "DistinctParties"))

\* the objects a record holds
ObjectsOf(m) ==
    {m.programs, m.legal_authorities}
        \cup {m.addresses[k] : k \in 1..Len(m.addresses)}
        \cup {m.id_documents[k] : k \in 1..Len(m.id_documents)}

\* a change of object a of record m: an append to a list, or a new value of a key
ChangeOf(h, m, a) ==
    IF a \in {m.programs, m.legal_authorities} THEN [h EXCEPT ![a] = Append(@, "CHANGED")]
    ELSE IF \E k \in 1..Len(m.addresses) : m.addresses[k] = a
    THEN [h EXCEPT ![a].city = "CHANGED"]
    ELSE [h EXCEPT ![a].id_number = "CHANGED"]

\* the caller changes one object of a record it was returned
ChangeRecord ==
    /\ HasReturned
    /\ Len(changes) < MaxChanges
    /\ \E i \in 1..Len(made) : \E a \in ObjectsOf(made[i]) :
           /\ heap' = ChangeOf(heap, made[i], a)
           /\ changes' = Append(changes, i)
    /\ UNCHANGED <<lookups, made, hpc>>
    /\ UNCHANGED <<pipelineVars, apiVars, functionVars>>

\* CleanRecordFn.process on a record the call returned: clean_record assigns
\* to keys of the record and to nothing else
CleanReturned ==
    /\ HasReturned
    /\ Len(changes) < MaxChanges
    /\ \E i \in 1..Len(made) :
           /\ made' = [made EXCEPT ![i].record = clean_record(@)]
           /\ changes' = Append(changes, i)
    /\ UNCHANGED <<heap, lookups, hpc>>
    /\ UNCHANGED <<pipelineVars, apiVars, functionVars>>

NextObjects == BuildMaps \/ EmitParty \/ ChangeRecord \/ CleanReturned

\* the parser on the documents of CopyDocuments, object by object
SpecObjects == StartObjects(CopyDocuments) /\ [][NextObjects]_vars

(***************************************************************************)
(* Documents whose ID attributes are not in their lookup tables            *)
(***************************************************************************)
\* how many of the ID attributes of a document are unknown at once
MaxUnknown == 2

\* the ID attributes that are looked up in a table
ReferenceKinds ==
    {"party subtype", "alias type", "script", "name-part group", "name-part type", "country",
     "location-part type", "ID-document type", "feature type", "legal basis", "location",
     "ID document"}

\* an ID the table has, and one it does not have
KnownId ==
    [k \in ReferenceKinds |->
        CASE k = "party subtype" -> "2"     [] k = "alias type" -> "2"
          [] k = "script" -> "1"            [] k = "name-part group" -> "G1"
          [] k = "name-part type" -> "1"    [] k = "country" -> "1"
          [] k = "location-part type" -> "1" [] k = "ID-document type" -> "1"
          [] k = "feature type" -> "8"      [] k = "legal basis" -> "3"
          [] k = "location" -> "L1"         [] k = "ID document" -> "D1"]

UnknownId ==
    [k \in ReferenceKinds |->
        CASE k = "party subtype" -> "71"     [] k = "alias type" -> "72"
          [] k = "script" -> "73"            [] k = "name-part group" -> "G74"
          [] k = "name-part type" -> "75"    [] k = "country" -> "76"
          [] k = "location-part type" -> "77" [] k = "ID-document type" -> "78"
          [] k = "feature type" -> "79"      [] k = "legal basis" -> "80"
          [] k = "location" -> "L81"         [] k = "ID document" -> "D82"]

\* one party, one alias, one location, one ID document and one sanctions entry;
\* id gives the ID attribute of each kind
ReferencingDocument(id) ==
    Node("{urn:ofac}Sanctions", <<
        Leaf("DateOfIssue", "2026-01-02"),
        ReferenceValueSets,
        Node("Locations", << Elem("Location", "ID" :> "L1", "",
                                  << LocPart(id["location-part type"], "Beirut") >>) >>),
        Node("IDRegDocuments", <<
            Elem("IDRegDocument", ("ID" :> "D1") @@ ("IDRegDocTypeID" :> id["ID-document type"]), "",
                 << Leaf("IDRegDocumentID", "A123") >>) >>),
        Node("{urn:ofac}DistinctParties", <<
            Elem("{urn:ofac}DistinctParty", "FixedRef" :> "7", "", <<
                Elem("{urn:ofac}Profile", ("ID" :> "P1") @@ ("PartySubTypeID" :> id["party subtype"]), "", <<
                    Node("Identity", <<
                        Elem("Alias", ("Primary" :> "false") @@ ("AliasTypeID" :> id["alias type"]), "", <<
                            DocName(<< Node("DocumentedNamePart", <<
                                Elem("NamePartValue", ("NamePartGroupID" :> id["name-part group"])
                                                      @@ ("ScriptID" :> id["script"]), "ALPHA", <<>>) >>) >>) >>),
                        Node("NamePartGroups", << Node("MasterNamePartGroup", <<
                            Elem("NamePartGroup", ("ID" :> "G1")
                                                  @@ ("NamePartTypeID" :> id["name-part type"]), "", <<>>) >>) >>) >>),
                    Feature("3", << Version(<< Detail("CountryID" :> id["country"], <<>>) >>) >>),
                    Feature(id["feature type"], << Version(<< Leaf("Comment", "Male") >>) >>),
                    Feature("5", << Version(<<
                        VersionLocation(id["location"]),
                        Detail(NoAttrs, << Elem("IDRegDocumentReference",
                                                "DocumentID" :> id["ID document"], "", <<>>) >>) >>) >>) >>) >>) >>),
        Node("SanctionsEntries", <<
            Entry("ProfileID" :> "P1", << Event(id["legal basis"]), Measure(<< "SDGT" >>) >>) >>) >>)

\* the IDs of a document in which the kinds of unknown are not in their tables
IdsWith(unknown) == [k \in ReferenceKinds |-> IF k \in unknown THEN UnknownId[k] ELSE KnownId[k]]

UnknownDocuments ==
    { ReferencingDocument(IdsWith(unknown)) :
          unknown \in {u \in SUBSET ReferenceKinds : Cardinality(u) <= MaxUnknown} }

\* the parser on documents with unknown IDs
SpecUnknown == Start(UnknownDocuments) /\ [][Next]_vars

(***************************************************************************)
(* The downloader (src/cloud_function/main.py): one invocation of          *)
(* download_sdn. env is os.environ, flocals the local variables of the     *)
(* function once the download has returned, steps the calls it has made to *)
(* the OFAC server, to GCS and to Dataflow with what each was given and    *)
(* what it gave back, and reply the HTTP response.                         *)
(***************************************************************************)
OFAC_XML_URL_DEFAULT ==
    "https://sanctionslistservice.ofac.treas.gov/api/PublicationPreview/exports/SDN_ADVANCED.XML"

\* xml_bytes[:200]
HeaderBytes == 200

\* os.environ.get(key, "")
_cfg(environ, key) == DictGet(environ, key, "")

\* the variables the handler validates
RequiredKeys ==
    {"PROJECT_ID", "REGION", "RAW_BUCKET", "TEMPLATE_PATH", "DATAFLOW_SA", "BQ_DATASET", "BQ_TABLE"}

\* the variables that have a default
DefaultedKeys == {"BQ_PROJECT", "OFAC_XML_URL"}

\* "missing = [k for k, v in {...}.items() if not v]"
Missing(environ) == {k \in RequiredKeys : _cfg(environ, k) = ""}

\* a test of the whole body for "<"
BodyHasTag(body) == body.first_lt >= 1

\* "<" in xml_bytes[:200].decode(...); a body is its length and the position
\* of its first "<", 0 when it has none
HeaderHasTag(body) == body.first_lt >= 1 /\ body.first_lt <= HeaderBytes

\* _download_ofac_xml: what the call returns or raises, given what the server did
_download_ofac_xml(result) ==
    IF result.error # "" THEN [raised |-> result.error, xml_bytes |-> None]
    ELSE IF result.body.size = 0
    THEN [raised |-> "ValueError: Empty response from OFAC server", xml_bytes |-> None]
    ELSE IF ~HeaderHasTag(result.body)
    THEN [raised |-> "ValueError: Response does not appear to be XML", xml_bytes |-> None]
    ELSE [raised |-> "", xml_bytes |-> Some(result.body)]

\* _upload_to_gcs: the gs:// URI, unless the upload raises
_upload_to_gcs(result, blob_name, raw_bucket) ==
    IF result.error # "" THEN [raised |-> result.error, gcs_uri |-> ""]
    ELSE [raised |-> "", gcs_uri |-> "gs://" \o raw_bucket \o "/" \o blob_name]

\* _launch_dataflow_job: the job ID, unless the request or raise_for_status raises
_launch_dataflow_job(result) ==
    IF result.error # "" THEN [raised |-> result.error, job_id |-> ""]
    ELSE [raised |-> "", job_id |-> OrElse(result.job_id, "unknown")]

\* the error response of the handler
ErrorResponse(msg) ==
    [code |-> 500, status |-> "error", error |-> msg, date |-> "", gcs_path |-> "",
     xml_size_bytes |-> 0, dataflow_job_id |-> "", bq_table |-> ""]

\* the success response of the handler
SuccessResponse(date_str, gcs_uri, body, job_id, bq_table_ref) ==
    [code |-> 200, status |-> "success", error |-> "", date |-> date_str, gcs_path |-> gcs_uri,
     xml_size_bytes |-> body.size, dataflow_job_id |-> job_id, bq_table |-> bq_table_ref]

\* environments: every variable is set or is not; a variable that is set to ""
\* reads as one that is not set
Environments ==
    { [k \in set |-> "v-" \o k] : set \in SUBSET (RequiredKeys \cup DefaultedKeys) }

\* datetime.now(timezone.utc).strftime("%Y%m%d")
Today == {"20261106", "20261113"}

\* what the OFAC server does: an error of the connection or of the status,
\* or a body
DownloadResults ==
    { [error |-> e, body |-> [size |-> 0, first_lt |-> 0]] : e \in {"ConnectionError", "HTTPError"} }
        \cup { [error |-> "", body |-> [size |-> n, first_lt |-> p]] :
                   n \in {0, 1, HeaderBytes, HeaderBytes + 1, HeaderBytes + 100},
                   p \in {0, 1, HeaderBytes, HeaderBytes + 1} }

\* a body has its first "<" inside itself
WellFormedResults == {r \in DownloadResults : r.body.first_lt <= r.body.size}

UploadResults == { [error |-> ""], [error |-> "GoogleAPIError"] }

LaunchResults ==
    { [error |-> "", job_id |-> Some("2026-job")], [error |-> "", job_id |-> None],
      [error |-> "HTTPError", job_id |-> None] }

\* the handler has been called
Invoked(environments) ==
    /\ doc = Document(<< >>, << >>)
    /\ well_formed = TRUE
    /\ pc = "done"
    /\ status = "none"
    /\ pub_date = None
    /\ records = <<>>
    /\ emitted = <<>>
    /\ NoRequest
    /\ NoHeap
    /\ twin = None
    /\ env \in environments
    /\ fpc = "validate"
    /\ flocals = None
    /\ steps = <<>>
    /\ reply = None

\* an exception inside the try block: "except Exception" answers 500
Fails(msg) ==
    /\ reply' = Some(ErrorResponse(msg))
    /\ fpc' = "returned"

\* lines 69-92: the configuration is read and validated
ValidateConfig ==
    /\ fpc = "validate"
    /\ IF Missing(env) # {}
       THEN Fails("Missing required environment variables")
       ELSE fpc' = "download" /\ reply' = reply
    /\ UNCHANGED <<env, flocals, steps>>
    /\ UNCHANGED <<pipelineVars, apiVars, heapVars>>

\* step 1, lines 96-100
DownloadXml ==
    /\ fpc = "download"
    /\ \E date_str \in Today, result \in WellFormedResults :
           /\ steps' = Append(steps, [step |-> "download",
                                      given |-> OrElse(Some(_cfg(env, "OFAC_XML_URL")), OFAC_XML_URL_DEFAULT),
                                      result |-> result])
           /\ IF _download_ofac_xml(result).raised # ""
              THEN Fails(_download_ofac_xml(result).raised) /\ flocals' = flocals
              ELSE /\ flocals' = Some([date_str |-> date_str,
                                       xml_bytes |-> The(_download_ofac_xml(result).xml_bytes),
                                       gcs_uri |-> ""])
                   /\ fpc' = "upload"
                   /\ reply' = reply
    /\ UNCHANGED env
    /\ UNCHANGED <<pipelineVars, apiVars, heapVars>>

\* step 2, lines 97 and 103-104
UploadXml ==
    /\ fpc = "upload"
    /\ \E result \in UploadResults :
           LET blob_name == "raw/SDN_ADVANCED_" \o The(flocals).date_str \o ".XML"
               uploaded == _upload_to_gcs(result, blob_name, _cfg(env, "RAW_BUCKET"))
           IN  /\ steps' = Append(steps, [step |-> "upload", given |-> blob_name, result |-> result])
               /\ IF uploaded.raised # ""
                  THEN Fails(uploaded.raised) /\ flocals' = flocals
                  ELSE /\ flocals' = Some([The(flocals) EXCEPT !.gcs_uri = uploaded.gcs_uri])
                       /\ fpc' = "launch"
                       /\ reply' = reply
    /\ UNCHANGED env
    /\ UNCHANGED <<pipelineVars, apiVars, heapVars>>

\* step 3 and the response, lines 107-125
LaunchJob ==
    /\ fpc = "launch"
    /\ \E result \in LaunchResults :
           LET bq_table_ref == OrElse(Some(_cfg(env, "BQ_PROJECT")), _cfg(env, "PROJECT_ID"))
                                   \o ":" \o _cfg(env, "BQ_DATASET") \o "." \o _cfg(env, "BQ_TABLE")
               launched == _launch_dataflow_job(result)
           IN  /\ steps' = Append(steps, [step |-> "launch", given |-> The(flocals).gcs_uri,
                                          result |-> result])
               /\ IF launched.raised # ""
                  THEN Fails(launched.raised)
                  ELSE /\ reply' = Some(SuccessResponse(The(flocals).date_str, The(flocals).gcs_uri,
                                                        The(flocals).xml_bytes, launched.job_id,
                                                        bq_table_ref))
                       /\ fpc' = "returned"
    /\ UNCHANGED <<env, flocals>>
    /\ UNCHANGED <<pipelineVars, apiVars, heapVars>>

NextFunction == ValidateConfig \/ DownloadXml \/ UploadXml \/ LaunchJob

\* one invocation of download_sdn in any environment
SpecFunction == Invoked(Environments) /\ [][NextFunction]_vars

(***************************************************************************)
(* The parser of src/dataflow/xml_parser.py, where its statements differ   *)
(* from the parser inlined in pipeline.py                                  *)
(***************************************************************************)
\* _build_ref_maps: PartySubTypeValues is read as every other set and is not
\* cross-referenced with PartyTypeValues
xml_parser_build_ref_maps(root) ==
    ForEach(LAMBDA refs, set_elem :
                DictSet(refs, _local_tag(set_elem.tag),
                        IF _local_tag(set_elem.tag) = "LegalBasisValues"
                        THEN LegalBasisMapping(set_elem)
                        ELSE SimpleMapping(set_elem)),
            EmptyDict, FirstBlock(root, "ReferenceValueSets"))

\* the routing of a part value: the fallback appends to a non-empty address
\* and sets an empty one
xml_parser_RoutePart(loc_data, loc_part_name, part_value) ==
    IF part_value = "" THEN loc_data
    ELSE IF Contains("city", loc_part_name) THEN [loc_data EXCEPT !.city = part_value]
    ELSE IF Contains("address", loc_part_name) THEN [loc_data EXCEPT !.address = part_value]
    ELSE IF Contains("state", loc_part_name) \/ Contains("province", loc_part_name)
    THEN [loc_data EXCEPT !.state_province = part_value]
    ELSE IF Contains("postal", loc_part_name) \/ Contains("zip", loc_part_name)
    THEN [loc_data EXCEPT !.postal_code = part_value]
    ELSE IF Contains("region", loc_part_name) THEN [loc_data EXCEPT !.region = part_value]
    ELSE [loc_data EXCEPT !.address = IF @ # "" THEN @ \o ", " \o part_value ELSE part_value]

xml_parser_build_locations_map(root, country_values, loc_part_types) ==
    ForEach(LAMBDA locations, loc :
                LET loc_id == Attr(loc, "ID", "")
                    loc_data == ForEach(LAMBDA acc, lchild :
                        LET lt == _local_tag(lchild.tag)
                        IN  IF lt = "LocationCountry"
                            THEN [acc EXCEPT !.country =
                                     DictGet(country_values, Attr(lchild, "CountryID", ""), "")]
                            ELSE IF lt = "LocationPart"
                            THEN xml_parser_RoutePart(acc,
                                     Lower(DictGet(loc_part_types, Attr(lchild, "LocPartTypeID", ""), "")),
                                     PartValue(_iter_tag(lchild, "LocationPartValue")))
                            ELSE acc,
                        EmptyLocation, loc.children)
                IN  IF _local_tag(loc.tag) # "Location" \/ loc_id = "" THEN locations
                    ELSE DictSet(locations, loc_id, loc_data),
            EmptyDict, FirstBlock(root, "Locations"))

\* a LegalAuthority element: the text its LegalBasisID resolves to, then the
\* texts of its LegalBasisShortRef children
LegalAuthority(legal_authorities, la_elem, legal_basis_map) ==
    ForEach(LAMBDA las, la_child :
                IF _local_tag(la_child.tag) = "LegalBasisShortRef" /\ Text(la_child) # ""
                THEN AppendNew(las, Text(la_child))
                ELSE las,
            IF /\ Attr(la_elem, "LegalBasisID", "") # ""
               /\ HasKey(legal_basis_map, Attr(la_elem, "LegalBasisID", ""))
               /\ legal_basis_map[Attr(la_elem, "LegalBasisID", "")] # ""
            THEN AppendNew(legal_authorities, legal_basis_map[Attr(la_elem, "LegalBasisID", "")])
            ELSE legal_authorities,
            la_elem.children)

\* a SanctionsMeasure: the program of its SanctionsProgramID, then its
\* LegalAuthority and SanctionsList children
xml_parser_Measure(acc, echild, legal_basis_map, sanctions_programs) ==
    ForEach(LAMBDA a, sm_child :
                IF _local_tag(sm_child.tag) = "LegalAuthority"
                THEN [a EXCEPT !.legal_authorities = LegalAuthority(@, sm_child, legal_basis_map)]
                ELSE IF _local_tag(sm_child.tag) = "SanctionsList" /\ Text(sm_child) # ""
                THEN [a EXCEPT !.programs = AppendNew(@, Text(sm_child))]
                ELSE a,
            IF /\ Attr(echild, "SanctionsProgramID", "") # ""
               /\ DictGet(sanctions_programs, Attr(echild, "SanctionsProgramID", ""),
                          Attr(echild, "SanctionsProgramID", "")) # ""
            THEN [acc EXCEPT !.programs =
                     AppendNew(@, DictGet(sanctions_programs, Attr(echild, "SanctionsProgramID", ""),
                                          Attr(echild, "SanctionsProgramID", "")))]
            ELSE acc,
            echild.children)

\* the profile, programs, legal authorities and remarks one SanctionsEntry carries
xml_parser_EntryData(entry, legal_basis_map, sanctions_programs) ==
    ForEach(LAMBDA acc, echild :
                LET ect == _local_tag(echild.tag)
                IN  IF ect = "ProfileID" THEN [acc EXCEPT !.profile_id = Some(Text(echild))]
                    ELSE IF ect = "SanctionsMeasure"
                    THEN xml_parser_Measure(acc, echild, legal_basis_map, sanctions_programs)
                    ELSE IF ect = "EntryEvent"
                    THEN [acc EXCEPT !.legal_authorities =
                             ForEach(LAMBDA las, ev_child :
                                         IF _local_tag(ev_child.tag) = "LegalAuthority"
                                         THEN LegalAuthority(las, ev_child, legal_basis_map)
                                         ELSE las,
                                     @, echild.children)]
                    ELSE IF ect = "SanctionsList"
                    THEN IF Text(echild) # "" THEN [acc EXCEPT !.programs = AppendNew(@, Text(echild))]
                         ELSE acc
                    ELSE IF ect = "Remarks"
                    THEN [acc EXCEPT !.remarks = Text(echild)]
                    ELSE acc,
            [profile_id |-> None, programs |-> <<>>, legal_authorities |-> <<>>, remarks |-> ""],
            entry.children)

xml_parser_build_sanctions_map(root, legal_basis_map, sanctions_programs) ==
    ForEach(LAMBDA sanctions, entry :
                IF _local_tag(entry.tag) # "SanctionsEntry" THEN sanctions
                ELSE Call(LAMBDA data :
                              IF data.profile_id \in {None, Some("")} THEN sanctions
                              ELSE DictSet(sanctions, The(data.profile_id),
                                           MergeEntry(DictGet(sanctions, The(data.profile_id),
                                                              [programs |-> <<>>, legal_authorities |-> <<>>,
                                                               remarks |-> ""]),
                                                      data)),
                          xml_parser_EntryData(entry, legal_basis_map, sanctions_programs)),
            EmptyDict, FirstBlock(root, "SanctionsEntries"))

\* party_subtypes.get(party_subtype_id, party_subtype_id or None)
SubtypeOrId(party_subtypes, subtype_id) ==
    IF HasKey(party_subtypes, subtype_id) THEN Some(party_subtypes[subtype_id])
    ELSE IF subtype_id = "" THEN None ELSE Some(subtype_id)

\* one Profile child of a DistinctParty folded into its record
xml_parser_Profile(record, profile_elem, refs, locations_map, id_docs_map, sanctions_map) ==
    Call(LAMBDA named :
             _parse_features(profile_elem, named, DictGet(refs, "FeatureTypeValues", EmptyDict),
                             DictGet(refs, "CountryValues", EmptyDict), locations_map, id_docs_map),
         Call(LAMBDA overlaid : Identities(overlaid, profile_elem, refs),
              Overlay([record EXCEPT !.sdn_type =
                          SubtypeOrId(DictGet(refs, "PartySubTypeValues", EmptyDict),
                                      Attr(profile_elem, "PartySubTypeID", ""))],
                      sanctions_map, Attr(profile_elem, "ID", ""))))

\* pass 2, the loop over the first DistinctParties block
xml_parser_Pass2(root, pubDate, ingestion_ts, refs, locations_map, id_docs_map, sanctions_map) ==
    ForEach(LAMBDA acc, dp :
                IF acc.status # "ok" \/ _local_tag(dp.tag) # "DistinctParty" \/ SkipParty(dp) THEN acc
                ELSE IF ~IntOf(Strip(Attr(dp, "FixedRef", ""))).ok
                THEN [status |-> "ValueError", records |-> <<>>]
                ELSE [acc EXCEPT !.records = Append(@,
                         ForEach(LAMBDA r, profile_elem :
                                     xml_parser_Profile(r, profile_elem, refs, locations_map,
                                                        id_docs_map, sanctions_map),
                                 NewRecord(IntOf(Strip(Attr(dp, "FixedRef", ""))).val, pubDate, ingestion_ts),
                                 _iter_tag(dp, "Profile")))],
            [status |-> "ok", records |-> <<>>],
            FirstBlock(root, "DistinctParties"))

\* xml_parser.parse_ofac_advanced_xml on bytes that are well-formed XML
xml_parser_parse_ofac_advanced_xml(root, ingestion_ts) ==
    Call(LAMBDA refs :
             Returned(xml_parser_Pass2(root, PublicationDate(root), ingestion_ts, refs,
                          xml_parser_build_locations_map(root, DictGet(refs, "CountryValues", EmptyDict),
                                                         DictGet(refs, "LocPartTypeValues", EmptyDict)),
                          _build_id_docs_map(root, DictGet(refs, "CountryValues", EmptyDict),
                                             DictGet(refs, "IDRegDocTypeValues", EmptyDict)),
                          xml_parser_build_sanctions_map(root, DictGet(refs, "LegalBasisValues", EmptyDict),
                                                         DictGet(refs, "SanctionsProgramValues", EmptyDict))),
                      PublicationDate(root)),
         xml_parser_build_ref_maps(root))

\* sanctions entries that name their profile in a ProfileID child and their
\* programs in SanctionsList children or a SanctionsProgramID attribute
ListEntrySamples ==
    << Entry(NoAttrs, << Leaf("ProfileID", " P1 "), Leaf("SanctionsList", "SDGT"),
                         Node("EntryEvent", << Elem("LegalAuthority", "LegalBasisID" :> "3", "",
                                                    << Leaf("LegalBasisShortRef", "EO 1") >>) >>),
                         Leaf("Remarks", "r1") >>),
       Entry(NoAttrs, << Leaf("ProfileID", "P2"),
                         Elem("SanctionsMeasure", "SanctionsProgramID" :> "5", "",
                              << Leaf("SanctionsList", "IFSR"), Leaf("Comment", "CUBA"),
                                 Elem("LegalAuthority", "LegalBasisID" :> "9", "", <<>>) >>) >>),
       Entry("ProfileID" :> "P2", << Leaf("ProfileID", ""), Measure(<< "SDGT" >>), Event("3") >>) >>

\* two parties, profiles P1 and P2, without sanctions entries or with entries
\* of the one form or the other; the second party's subtype is not in the table
ParserDocuments ==
    { Document(<< Party("FixedRef" :> "7", "P1", "2", << Identity(<< PrimaryAlias("ALPHA") >>) >>, <<>>),
                  Party("FixedRef" :> "8", "P2", subtype, << Identity(<< PrimaryAlias("BRAVO") >>) >>, <<>>) >>,
               Pick(ListEntrySamples \o << EntrySamples[1] >>, c)) :
          c \in Choices(ListEntrySamples \o << EntrySamples[1] >>, 0, MaxEntries),
          subtype \in {"2", "77"} }

\* the parser of xml_parser.py is run on the bytes ParseOfacXmlFn was handed
ParseTwin ==
    /\ well_formed
    /\ twin = None
    /\ \E ingestion_ts \in Clock :
           twin' = Some(xml_parser_parse_ofac_advanced_xml(doc, ingestion_ts))
    /\ UNCHANGED <<doc, well_formed, pc, status, pub_date, records, emitted>>
    /\ UNCHANGED <<apiVars, heapVars, functionVars>>

NextParsers == Parse \/ Clean \/ ParseTwin

\* the two parsers on the same documents
SpecParsers ==
    (Start(ParserDocuments) \/ Start(SubtypeDocuments) \/ Start(PeriodDocuments)
        \/ Start(LocationDocuments))
        /\ [][NextParsers]_vars

(***************************************************************************)
(* The screening query (src/api/queries.py)                                *)
(***************************************************************************)
UpperChar(c) ==
    IF \E i \in 1..Len(LowerLetters) : CharAt(LowerLetters, i) = c
    THEN CharAt(UpperLetters, CHOOSE i \in 1..Len(LowerLetters) : CharAt(LowerLetters, i) = c)
    ELSE c

Min3(x, y, z) == IF x <= y /\ x <= z THEN x ELSE IF y <= z THEN y ELSE z

\* row i of the Levenshtein table of a and b from row i - 1; a row holds the
\* distances of the first i characters of a to the prefixes of b
EditRow(a, b, i, prev) ==
    ForEach(LAMBDA row, j :
                Append(row, Min3(prev[j + 1] + 1, row[j] + 1,
                                 prev[j] + (IF CharAt(a, i) = CharAt(b, j) THEN 0 ELSE 1))),
            << i >>, [j \in 1..Len(b) |-> j])

\* EDIT_DISTANCE(a, b)
EDIT_DISTANCE(a, b) ==
    ForEach(LAMBDA prev, i : EditRow(a, b, i, prev),
            [j \in 1..(Len(b) + 1) |-> j - 1], [i \in 1..Len(a) |-> i])[Len(b) + 1]

\* the Soundex digit of a lower-case letter, "" for the letters that have none
SoundexDigit(c) ==
    IF Contains(c, "bfpv") THEN "1"
    ELSE IF Contains(c, "cgjkqsxz") THEN "2"
    ELSE IF Contains(c, "dt") THEN "3"
    ELSE IF c = "l" THEN "4"
    ELSE IF Contains(c, "mn") THEN "5"
    ELSE IF c = "r" THEN "6"
    ELSE ""

\* the Latin letters of s, lower-cased
LatinLetters(s) ==
    SelectSeq([i \in 1..Len(s) |-> LowerChar(CharAt(s, i))], LAMBDA c : Contains(c, LowerLetters))

\* SOUNDEX(s): the first letter and the digits of the letters after it, a digit
\* that repeats the one before it left out (h and w do not part two digits),
\* filled with zeros to three digits; "" when s has no Latin letter
SOUNDEX(s) ==
    IF Len(LatinLetters(s)) = 0 THEN ""
    ELSE UpperChar(LatinLetters(s)[1]) \o
         SubSeq(ForEach(LAMBDA acc, c :
                            IF Contains(c, "hw") THEN acc
                            ELSE [digits |-> IF SoundexDigit(c) # "" /\ SoundexDigit(c) # acc.last
                                             THEN acc.digits \o SoundexDigit(c) ELSE acc.digits,
                                  last |-> SoundexDigit(c)],
                        [digits |-> "", last |-> SoundexDigit(LatinLetters(s)[1])],
                        Tail(LatinLetters(s))).digits \o "000", 1, 3)

\* the CASE of SCREEN_SQL
MatchScore(all_name, name, threshold) ==
    IF Lower(all_name) = Lower(name) THEN 1
    ELSE IF EDIT_DISTANCE(Lower(all_name), Lower(name)) <= 2 THEN 2
    ELSE IF EDIT_DISTANCE(Lower(all_name), Lower(name)) <= threshold THEN 3
    ELSE IF SOUNDEX(all_name) = SOUNDEX(name) THEN 4
    ELSE 5

\* the WHERE of SCREEN_SQL
Where(all_name, name, threshold) ==
    \/ Lower(all_name) = Lower(name)
    \/ EDIT_DISTANCE(Lower(all_name), Lower(name)) <= threshold
    \/ SOUNDEX(all_name) = SOUNDEX(name)

\* the rows of the sdn_list table: an entry with a primary name and aliases,
\* one without a primary name, and entries whose names are near or far from
\* the names that are asked for
Table ==
    << [sdn_entry_id |-> 1, sdn_type |-> Some("Individual"), primary_name |-> Some("CAT"),
        aliases |-> << Some("bat"), None >>, programs |-> Some(<< "SDGT" >>),
        legal_authorities |-> None, dates_of_birth |-> Some(<< "1957-07-30" >>),
        nationalities |-> Some(<< >>), remarks |-> None],
       [sdn_entry_id |-> 2, sdn_type |-> None, primary_name |-> None,
        aliases |-> << Some("cooooot") >>, programs |-> None,
        legal_authorities |-> Some(<< "EO 13224" >>), dates_of_birth |-> None,
        nationalities |-> Some(<< "Iran" >>), remarks |-> Some("r")],
       [sdn_entry_id |-> 3, sdn_type |-> Some("Entity"), primary_name |-> Some("dog"),
        aliases |-> << Some("cart") >>, programs |-> Some(<< >>),
        legal_authorities |-> Some(<< >>), dates_of_birth |-> Some(<< >>),
        nationalities |-> Some(<< >>), remarks |-> None],
       [sdn_entry_id |-> 4, sdn_type |-> Some("Vessel"), primary_name |-> Some("bitter"),
        aliases |-> << >>, programs |-> Some(<< "IRAN" >>),
        legal_authorities |-> Some(<< >>), dates_of_birth |-> Some(<< >>),
        nationalities |-> Some(<< >>), remarks |-> None] >>

\* the names of an entry that are not NULL, the primary name first
NamesOfEntry(entry) ==
    (IF entry.primary_name # None THEN << The(entry.primary_name) >> ELSE << >>)
    \o [i \in 1..Len(SelectSeq(entry.aliases, LAMBDA a : a # None)) |->
           The(SelectSeq(entry.aliases, LAMBDA a : a # None)[i])]

\* one row of the query for a name of an entry
NameRow(entry, all_name, name, threshold) ==
    [sdn_entry_id |-> entry.sdn_entry_id, sdn_type |-> entry.sdn_type,
     primary_name |-> entry.primary_name, all_name |-> all_name,
     programs |-> entry.programs, legal_authorities |-> entry.legal_authorities,
     dates_of_birth |-> entry.dates_of_birth, nationalities |-> entry.nationalities,
     remarks |-> entry.remarks,
     match_score |-> MatchScore(all_name, name, threshold),
     edit_distance |-> EDIT_DISTANCE(Lower(all_name), Lower(name))]

\* the CTE all_names with the two computed columns, filtered by the WHERE
Selected(table, name, threshold) ==
    ForEach(LAMBDA rows, entry :
                rows \o [i \in 1..Len(SelectSeq(NamesOfEntry(entry),
                                                LAMBDA n : Where(n, name, threshold))) |->
                            NameRow(entry,
                                    SelectSeq(NamesOfEntry(entry),
                                              LAMBDA n : Where(n, name, threshold))[i],
                                    name, threshold)],
            << >>, table)

\* ORDER BY match_score, edit_distance
OrderedBefore(r1, r2) ==
    \/ r1.match_score < r2.match_score
    \/ r1.match_score = r2.match_score /\ r1.edit_distance < r2.edit_distance

\* the orders ORDER BY may give the rows: rows that tie come in any order
Orderings(rows) ==
    { [i \in 1..Len(rows) |-> rows[p[i]]] :
        p \in { q \in Permutations(1..Len(rows)) :
                  \A i, j \in 1..Len(rows) : i < j => ~OrderedBefore(rows[q[j]], rows[q[i]]) } }

\* a LIMIT that lets one row more through
LimitPlusOne(rows, limit) == SubSeq(rows, 1, IF limit + 1 < Len(rows) THEN limit + 1 ELSE Len(rows))

\* LIMIT @limit
Limit(rows, limit) == SubSeq(rows, 1, IF limit < Len(rows) THEN limit ELSE Len(rows))

\* what SCREEN_SQL can return for the parameters
SCREEN_SQL(table, name, threshold, limit) ==
    { Limit(ordered, limit) : ordered \in Orderings(Selected(table, name, threshold)) }

\* _coerce_row: the repeated fields that are None become []
_coerce_row(row) ==
    [row EXCEPT !.programs = IF @ = None THEN Some(<< >>) ELSE @,
                !.legal_authorities = IF @ = None THEN Some(<< >>) ELSE @,
                !.dates_of_birth = IF @ = None THEN Some(<< >>) ELSE @,
                !.nationalities = IF @ = None THEN Some(<< >>) ELSE @]

\* screen_names: the lists of rows the call can return
screen_names(name, threshold, limit) ==
    { [i \in 1..Len(rows) |-> _coerce_row(rows[i])] : rows \in SCREEN_SQL(Table, name, threshold, limit) }

(***************************************************************************)
(* The screening API (src/api/main.py, src/api/models.py)                  *)
(***************************************************************************)
\* r.get(key) or []
OrEmpty(o) == IF o = None THEN << >> ELSE The(o)

\* ScreenResult(...) of a row
ScreenResult(r) ==
    [sdn_entry_id |-> r.sdn_entry_id, sdn_type |-> r.sdn_type,
     primary_name |-> r.primary_name, matched_name |-> r.all_name,
     match_score |-> r.match_score, edit_distance |-> r.edit_distance,
     programs |-> OrEmpty(r.programs), legal_authorities |-> OrEmpty(r.legal_authorities),
     dates_of_birth |-> OrEmpty(r.dates_of_birth), nationalities |-> OrEmpty(r.nationalities)]

\* a parameter with a default
Given(o, default) == IF o = None THEN default ELSE The(o)

\* a validation of /screen that looks at the name only
ScreenParamsValidNameOnly(req) ==
    /\ req.name # None
    /\ Len(The(req.name)) >= 1

\* the query parameters of /screen: name of length 1 at least, threshold
\* 0..10 (4 when absent), limit 1..100 (20 when absent); FALSE is 422
ScreenParamsValid(req) ==
    /\ req.name # None
    /\ Len(The(req.name)) >= 1
    /\ Given(req.threshold, 4) >= 0 /\ Given(req.threshold, 4) <= 10
    /\ Given(req.limit, 20) >= 1 /\ Given(req.limit, 20) <= 100

\* DocumentScreenRequest: text of length 1 at least, threshold 0..10 (4),
\* limit_per_entity 1..20 (5)
DocumentScreenRequest(req) ==
    /\ req.text # None
    /\ Len(The(req.text)) >= 1
    /\ Given(req.threshold, 4) >= 0 /\ Given(req.threshold, 4) <= 10
    /\ Given(req.limit_per_entity, 5) >= 1 /\ Given(req.limit_per_entity, 5) <= 20

\* the response to a request that fails validation
Unprocessable == [status_code |-> 422, body |-> None]

\* ScreenResponse of the rows
ScreenResponse(name, threshold, rows) ==
    [status_code |-> 200,
     body |-> Some([query |-> name, threshold |-> threshold, total_hits |-> Len(rows),
                    results |-> [i \in 1..Len(rows) |-> ScreenResult(rows[i])]])]

\* a record of a call of a collaborator and of what it returned
Called(fn, args, returned) == [fn |-> fn, args |-> args, returned |-> returned]

\* GET /screen
Screen ==
    /\ request # None
    /\ response = None
    /\ The(request).path = "/screen"
    /\ IF ~ScreenParamsValid(The(request))
       THEN /\ response' = Some(Unprocessable)
            /\ calls' = calls
       ELSE \E rows \in screen_names(The(The(request).name), Given(The(request).threshold, 4),
                                     Given(The(request).limit, 20)) :
                /\ response' = Some(ScreenResponse(The(The(request).name),
                                                   Given(The(request).threshold, 4), rows))
                /\ calls' = Append(calls, Called("screen_names",
                                                 << The(The(request).name),
                                                    Given(The(request).threshold, 4),
                                                    Given(The(request).limit, 20) >>, rows))
    /\ UNCHANGED request
    /\ UNCHANGED pipelineVars
    /\ UNCHANGED <<heapVars, functionVars>>

\* how many entities the extractor returns at most
MaxEntities == 2

EntitySamples ==
    << [name |-> "cat", entity_type |-> "person"],
       [name |-> "zzz", entity_type |-> "organization"],
       [name |-> "Dog", entity_type |-> "vessel"] >>

\* extract_entities(text): what the model can answer
extract_entities(text) ==
    { Pick(EntitySamples, c) : c \in Choices(EntitySamples, 0, MaxEntities) }

\* a document is clear when nothing was extracted from it
DocumentClearNoEntities(entities, total_matches) == Len(entities) = 0

\* document_clear=total_matches == 0
DocumentClear(entities, total_matches) == total_matches = 0

\* EntityScreenResult of an entity and the rows of its query
EntityScreenResult(ent, rows) ==
    [entity |-> ent.name, entity_type |-> ent.entity_type,
     is_match |-> Len(rows) > 0,
     hits |-> [i \in 1..Len(rows) |-> ScreenResult(rows[i])]]

\* DocumentScreenResponse of the entities and the screening results
DocumentScreenResponse(entities, screening_results) ==
    [status_code |-> 200,
     body |-> Some([entities_extracted |-> entities,
                    screening_results |-> screening_results,
                    document_clear |->
                        DocumentClear(entities,
                                      Cardinality({i \in 1..Len(screening_results) :
                                                      screening_results[i].is_match})),
                    total_entities_extracted |-> Len(entities),
                    total_matches |-> Cardinality({i \in 1..Len(screening_results) :
                                                     screening_results[i].is_match})])]

\* the rows the queries of screen_document can return, one list per entity
QueriesOf(entities, threshold, limit) ==
    ForEach(LAMBDA lists, ent :
                { Append(list, rows) : list \in lists,
                                       rows \in screen_names(ent.name, threshold, limit) },
            { << >> }, entities)

\* the loop of screen_document over the entities, the rows of the queries given
Screened(entities, rows, threshold, limit) ==
    /\ response' = Some(DocumentScreenResponse(
                            entities,
                            [i \in 1..Len(entities) |-> EntityScreenResult(entities[i], rows[i])]))
    /\ calls' = calls \o << Called("extract_entities", << The(The(request).text) >>, entities) >>
                      \o [i \in 1..Len(entities) |->
                             Called("screen_names", << entities[i].name, threshold, limit >>, rows[i])]

\* POST /screen/document
ScreenDocument ==
    /\ request # None
    /\ response = None
    /\ The(request).path = "/screen/document"
    /\ IF ~DocumentScreenRequest(The(request))
       THEN /\ response' = Some(Unprocessable)
            /\ calls' = calls
       ELSE \E entities \in extract_entities(The(The(request).text)) :
                \E rows \in QueriesOf(entities, Given(The(request).threshold, 4),
                                       Given(The(request).limit_per_entity, 5)) :
                    Screened(entities, rows, Given(The(request).threshold, 4),
                             Given(The(request).limit_per_entity, 5))
    /\ UNCHANGED request
    /\ UNCHANGED pipelineVars
    /\ UNCHANGED <<heapVars, functionVars>>

\* the values a parameter is sent with: absent, and numbers around its bounds
ThresholdSamples == {None, Some(0 - 1), Some(0), Some(1), Some(3), Some(10), Some(11)}

LimitSamples == {None, Some(0), Some(1), Some(2), Some(100), Some(101)}

LimitPerEntitySamples == {None, Some(0), Some(1), Some(20), Some(21)}

ScreenRequests ==
    { [path |-> "/screen", name |-> n, threshold |-> t, limit |-> l]
        : n \in {None, Some(""), Some("cat"), Some("Dog")}, t \in ThresholdSamples, l \in LimitSamples }

DocumentRequests ==
    { [path |-> "/screen/document", text |-> x, threshold |-> t, limit_per_entity |-> l]
        : x \in {None, Some(""), Some("wire from cat")},
          t \in {None, Some(0 - 1), Some(0), Some(11)}, l \in LimitPerEntitySamples }

\* the API has received a request and has not answered; the pipeline is not part of it
Received(requests) ==
    /\ doc = Document(<< >>, << >>)
    /\ well_formed = TRUE
    /\ pc = "done"
    /\ status = "none"
    /\ pub_date = None
    /\ records = <<>>
    /\ emitted = <<>>
    /\ \E req \in requests : request = Some(req)
    /\ response = None
    /\ calls = <<>>
    /\ NoHeap
    /\ NoInvocation
    /\ twin = None

NextApi == Screen \/ ScreenDocument

\* the API on /screen and /screen/document requests
SpecApi == Received(ScreenRequests \cup DocumentRequests) /\ [][NextApi]_vars

(***************************************************************************)
(* The documents as the properties below read them                         *)
(***************************************************************************)
\* the children of the first DistinctParties block that are DistinctParty elements
Parties ==
    SelectSeq(FirstBlock(doc, "DistinctParties"), LAMBDA dp : _local_tag(dp.tag) = "DistinctParty")

FixedRefOf(dp) == Attr(dp, "FixedRef", "")

Blank(s) == \A i \in 1..Len(s) : CharAt(s, i) \in Whitespace

\* the parties that have a FixedRef, one record each and in this order
Recorded == SelectSeq(Parties, LAMBDA dp : ~Blank(FixedRefOf(dp)))

\* s without the whitespace around it
Trimmed(s) ==
    IF Blank(s) THEN ""
    ELSE SubSeq(s, CHOOSE i \in 1..Len(s) : CharAt(s, i) \notin Whitespace
                                            /\ Blank(SubSeq(s, 1, i - 1)),
                   CHOOSE j \in 1..Len(s) : CharAt(s, j) \notin Whitespace
                                            /\ Blank(SubSeq(s, j + 1, Len(s))))

\* a decimal integer as int() reads one: an optional sign, then digits that
\* single underscores may separate, whitespace around it ignored
IntegerText(s) ==
    LET t == Trimmed(s)
        body == IF Len(t) > 0 /\ CharAt(t, 1) \in {"+", "-"} THEN SubSeq(t, 2, Len(t)) ELSE t
    IN  /\ Len(body) > 0
        /\ \A i \in 1..Len(body) : IsDigit(CharAt(body, i)) \/ CharAt(body, i) = "_"
        /\ IsDigit(CharAt(body, 1)) /\ IsDigit(CharAt(body, Len(body)))
        /\ \A i \in 1..(Len(body) - 1) : ~(CharAt(body, i) = "_" /\ CharAt(body, i + 1) = "_")

\* the index of the first child of root with the tag
BlockIndex(root, name) ==
    CHOOSE i \in 1..Len(root.children) :
        /\ _local_tag(root.children[i].tag) = name
        /\ \A j \in 1..(i - 1) : _local_tag(root.children[j].tag) # name

\* root with the children of its first block of that tag replaced
WithBlock(root, name, children) ==
    [root EXCEPT !.children[BlockIndex(root, name)].children = children]

RemoveAt(s, k) == SubSeq(s, 1, k - 1) \o SubSeq(s, k + 1, Len(s))

\* the document without the k-th child of its first DistinctParties block
WithoutParty(root, k) ==
    WithBlock(root, "DistinctParties", RemoveAt(FirstBlock(root, "DistinctParties"), k))

\* the children of a with the tag
ChildrenOf(a, name) == SelectSeq(a.children, LAMBDA c : _local_tag(c.tag) = name)

\* the elements of a sequence of sequences, in order
RECURSIVE Flatten(_)
Flatten(seqs) == IF Len(seqs) = 0 THEN <<>> ELSE Head(seqs) \o Flatten(Tail(seqs))

\* s without the elements that occurred earlier in it
FirstOccurrences(s) ==
    LET keep == {i \in 1..Len(s) : \A j \in 1..(i - 1) : s[j] # s[i]}
    IN  [n \in 1..Cardinality(keep) |->
            s[CHOOSE i \in keep : Cardinality({j \in keep : j <= i}) = n]]

\* the ID of the Profile of a party that has one Profile
ProfileIdOf(dp) == Attr(ChildrenOf(dp, "Profile")[1], "ID", "")

\* the children of the first SanctionsEntries block of root
EntryBlock(root) == FirstBlock(root, "SanctionsEntries")

\* the i-th child of the block is a SanctionsEntry of profile P
EntryFor(block, i, P) ==
    /\ _local_tag(block[i].tag) = "SanctionsEntry"
    /\ Trimmed(Attr(block[i], "ProfileID", "")) = P

\* the LegalBasis elements of the reference values whose ID is id
LegalBases(root, id) ==
    SelectSeq(Flatten([i \in 1..Len(FirstBlock(root, "ReferenceValueSets")) |->
                          IF _local_tag(FirstBlock(root, "ReferenceValueSets")[i].tag) = "LegalBasisValues"
                          THEN ChildrenOf(FirstBlock(root, "ReferenceValueSets")[i], "LegalBasis")
                          ELSE <<>>]),
              LAMBDA lb : Attr(lb, "ID", "") = id)

\* the positions <<entry, measure, comment>> of the non-empty program texts of profile P
ProgramPositions(block, P) ==
    UNION {UNION {{<<i, m, c>> : c \in {c \in 1..Len(block[i].children[m].children) :
                                          /\ _local_tag(block[i].children[m].children[c].tag) = "Comment"
                                          /\ ~Blank(block[i].children[m].children[c].text)}} :
                  m \in {m \in 1..Len(block[i].children) :
                            _local_tag(block[i].children[m].tag) = "SanctionsMeasure"}} :
           i \in {i \in 1..Len(block) : EntryFor(block, i, P)}}

ProgramAt(block, q) == Trimmed(block[q[1]].children[q[2]].children[q[3]].text)

\* position p comes before position q in document order
Before(p, q) ==
    \/ p[1] < q[1]
    \/ p[1] = q[1] /\ p[2] < q[2]
    \/ p[1] = q[1] /\ p[2] = q[2] /\ p[3] < q[3]

\* the program texts of profile P in document order
ProgramTexts(block, P) ==
    LET at == ProgramPositions(block, P)
    IN  [n \in 1..Cardinality(at) |->
            ProgramAt(block, CHOOSE q \in at : Cardinality({p \in at : Before(p, q)}) = n - 1)]

\* the block without the program text at position q
DropProgram(block, q) ==
    [block EXCEPT ![q[1]].children[q[2]].children = RemoveAt(@, q[3])]

\* the block with one more SanctionsMeasure, of text t, at the end of entry i
RepeatProgram(block, i, t) ==
    [block EXCEPT ![i].children = Append(@, Measure(<<t>>))]

\* the programs the parser gives the k-th record of the document with that block
ProgramsWith(block, k) ==
    parse_ofac_advanced_xml(WithBlock(doc, "SanctionsEntries", block),
                            CHOOSE ts \in Clock : TRUE).records[k].programs

\* the sort keys, smallest first
SortKeys == <<0, 1, 2, 3, 4, 99>>

\* the sort key of a name-part type
SortKeyOf(part_type) ==
    LET lower == Lower(part_type)
    IN  IF lower \in {"last name", "last", "entity name", "vessel name", "aircraft name"} THEN 0
        ELSE IF lower \in {"first name", "first"} THEN 1
        ELSE IF lower \in {"middle name", "middle"} THEN 2
        ELSE IF lower = "patronymic" THEN 3
        ELSE IF lower = "matronymic" THEN 4
        ELSE 99

\* the NamePartValue elements of a DocumentedName, in document order
NamePartValues(doc_name) ==
    LET parts == ChildrenOf(doc_name, "DocumentedNamePart")
    IN  Flatten([i \in 1..Len(parts) |-> ChildrenOf(parts[i], "NamePartValue")])

\* the type, the sort key and the trimmed text of a NamePartValue
KeyedPart(npv, npg_map) ==
    LET part_type == DictGet(npg_map, Attr(npv, "NamePartGroupID", ""), "Name")
    IN  [part_type |-> part_type, key |-> SortKeyOf(part_type), part_value |-> Trimmed(npv.text)]

\* the non-empty parts of a DocumentedName, ordered by sort key, parts of equal
\* key in document order
OrderedParts(doc_name, npg_map) ==
    LET all == NamePartValues(doc_name)
        keyed == SelectSeq([i \in 1..Len(all) |-> KeyedPart(all[i], npg_map)],
                           LAMBDA part : part.part_value # "")
        ordered == Flatten([n \in 1..Len(SortKeys) |->
                               SelectSeq(keyed, LAMBDA part : part.key = SortKeys[n])])
    IN  [i \in 1..Len(ordered) |->
            [part_type |-> ordered[i].part_type, part_value |-> ordered[i].part_value]]

\* the names an Alias documents, each with the Primary flag of the Alias
NamesOfAlias(alias, npg_map) ==
    LET primary == Lower(Trimmed(Attr(alias, "Primary", "false"))) = "true"
        documented == ChildrenOf(alias, "DocumentedName")
    IN  [n \in 1..Len(documented) |->
            [primary |-> primary, parts |-> OrderedParts(documented[n], npg_map)]]

\* the names an Identity documents
NamesOfIdentity(identity, npg_map) ==
    LET aliases == ChildrenOf(identity, "Alias")
    IN  Flatten([a \in 1..Len(aliases) |-> NamesOfAlias(aliases[a], npg_map)])

\* the name-part types and the feature types of the reference values
NamePartTypes == DictGet(_build_ref_maps(doc), "NamePartTypeValues", EmptyDict)

FeatureTypes == DictGet(_build_ref_maps(doc), "FeatureTypeValues", EmptyDict)

\* the names of a party whose full_name is not empty, in document order
NamesFor(dp, name_part_types) ==
    LET identities == ChildrenOf(ChildrenOf(dp, "Profile")[1], "Identity")
    IN  SelectSeq(Flatten([i \in 1..Len(identities) |->
                              NamesOfIdentity(identities[i],
                                              NamePartGroupMap(identities[i], name_part_types))]),
                  LAMBDA name : Len(name.parts) > 0)

NamesOf(dp) == NamesFor(dp, NamePartTypes)

\* the part values of a name with single spaces between them
FullNameOf(name) == Join(" ", [i \in 1..Len(name.parts) |-> name.parts[i].part_value])

\* the index of the first name flagged primary, 0 when there is none
FirstPrimary(names) ==
    IF \E i \in 1..Len(names) : names[i].primary
    THEN CHOOSE i \in 1..Len(names) : names[i].primary /\ \A j \in 1..(i - 1) : ~names[j].primary
    ELSE 0

\* primary_name and the aliases of a record as one sequence, the primary name
\* at index at
NamesIn(record, at) ==
    IF at = 0 THEN record.aliases
    ELSE SubSeq(record.aliases, 1, at - 1) \o <<The(record.primary_name)>>
         \o SubSeq(record.aliases, at, Len(record.aliases))

\* the type and value of the name parts of a name of a record
PartsIn(name) ==
    [i \in 1..Len(name.name_parts) |->
        [part_type |-> name.name_parts[i].part_type, part_value |-> name.name_parts[i].part_value]]

\* a list of non-empty strings none of which occurs twice
NonEmptyDistinct(list) ==
    /\ \A i \in 1..Len(list) : list[i] # ""
    /\ \A i, j \in 1..Len(list) : i # j => list[i] # list[j]

\* the Feature elements of a party whose feature type names a vessel field
VesselFeaturesFor(dp, feature_types) ==
    SelectSeq(ChildrenOf(ChildrenOf(dp, "Profile")[1], "Feature"),
              LAMBDA feature :
                  \E i \in 1..Len(VESSEL_FEATURES) :
                      Contains(VESSEL_FEATURES[i][1],
                               Lower(DictGet(feature_types, Attr(feature, "FeatureTypeID", ""), ""))))

VesselFeaturesOf(dp) == VesselFeaturesFor(dp, FeatureTypes)

\* no FeatureVersion of the feature has a Comment with text in it
CommentsEmpty(feature) ==
    \A v \in 1..Len(ChildrenOf(feature, "FeatureVersion")) :
        \A c \in 1..Len(ChildrenOf(ChildrenOf(feature, "FeatureVersion")[v], "Comment")) :
            Blank(ChildrenOf(ChildrenOf(feature, "FeatureVersion")[v], "Comment")[c].text)

\* a struct of nullable strings has a field that is neither null nor empty
HasValue(struct) == \E field \in DOMAIN struct : struct[field] \notin {None, Some("")}

\* what the parse of the state's document has given
Outcome == [status |-> status, pub_date |-> pub_date, records |-> records]

(***************************************************************************)
(* Properties                                                              *)
(***************************************************************************)
\* C1: within one parse no two returned records have the same sdn_entry_id,
\* also when two parties of the document carry the same FixedRef.
C1_UniqueEntryIds ==
    status = "ok" =>
        \A i, j \in 1..Len(records) :
            i # j => records[i].sdn_entry_id # records[j].sdn_entry_id

\* C2: every returned record has sdn_entry_id > 0, whatever integer its
\* FixedRef is, "0" and negative integers included.
C2_PositiveEntryIds ==
    status = "ok" => \A i \in 1..Len(records) : records[i].sdn_entry_id > 0

\* C3 as stated: the parser is total, every document gives a result and none
\* an exception.
C3_NeverRaises == status # "none" => status = "ok"

\* C3 amended: the parser returns its result exactly when every non-blank
\* FixedRef of the first DistinctParties block is a decimal integer, and raises
\* ValueError when one is not.
C3_RaisesOnlyOnBadFixedRef ==
    status # "none" =>
        /\ status \in {"ok", "ValueError"}
        /\ status = "ok" <=> \A i \in 1..Len(Recorded) : IntegerText(FixedRefOf(Recorded[i]))

\* a parse that returned although its FixedRefs are padded, signed or zero
C3_Witness ==
    /\ status = "ok"
    /\ Len(records) = 2
    /\ \E i, j \in 1..Len(Recorded) :
           FixedRefOf(Recorded[i]) = " 07 " /\ FixedRefOf(Recorded[j]) \in {"-3", "0"}

\* C4: when a SanctionsEntry of a party's profile has an EntryEvent whose
\* LegalBasisID is the ID of a LegalBasis that has a LegalBasisShortRef child
\* with text T, T is among the party's legal_authorities.
C4_ShortRefIsListed ==
    status = "ok" =>
        \A k \in 1..Len(records), i \in 1..Len(EntryBlock(doc)) :
            EntryFor(EntryBlock(doc), i, ProfileIdOf(Recorded[k])) =>
                \A ev \in {ChildrenOf(EntryBlock(doc)[i], "EntryEvent")[n] :
                                n \in 1..Len(ChildrenOf(EntryBlock(doc)[i], "EntryEvent"))} :
                    \A lb \in {LegalBases(doc, Attr(ev, "LegalBasisID", ""))[n] :
                                    n \in 1..Len(LegalBases(doc, Attr(ev, "LegalBasisID", "")))} :
                        \A n \in 1..Len(ChildrenOf(lb, "LegalBasisShortRef")) :
                            ~Blank(ChildrenOf(lb, "LegalBasisShortRef")[n].text) =>
                                InSeq(Trimmed(ChildrenOf(lb, "LegalBasisShortRef")[n].text),
                                      records[k].legal_authorities)

C5_BlankPartyIsAbsent ==
    status # "none" =>
        \A k \in 1..Len(FirstBlock(doc, "DistinctParties")) :
            (/\ _local_tag(FirstBlock(doc, "DistinctParties")[k].tag) = "DistinctParty"
             /\ Blank(FixedRefOf(FirstBlock(doc, "DistinctParties")[k])))
            => \E ingestion_ts \in Clock :
                   parse_ofac_advanced_xml(WithoutParty(doc, k), ingestion_ts) = Outcome

\* a parse that returned a record for a document that also has a blank party
C5_Witness ==
    /\ status = "ok"
    /\ Len(Parties) = 2
    /\ Len(records) = 1
    /\ \E k \in 1..2 : FixedRefOf(Parties[k]) = " "

\* C6: in every returned record programs, legal_authorities, nationalities,
\* citizenships, dates_of_birth and places_of_birth hold non-empty strings
\* only, each at most once.
C6_ListsNonEmptyDistinct ==
    status = "ok" =>
        \A k \in 1..Len(records) :
            /\ NonEmptyDistinct(records[k].programs)
            /\ NonEmptyDistinct(records[k].legal_authorities)
            /\ NonEmptyDistinct(records[k].nationalities)
            /\ NonEmptyDistinct(records[k].citizenships)
            /\ NonEmptyDistinct(records[k].dates_of_birth)
            /\ NonEmptyDistinct(records[k].places_of_birth)

\* a record whose nationality was given twice and whose lists are filled
C6_Witness ==
    /\ status = "ok"
    /\ \E k \in 1..Len(records) :
           /\ records[k].nationalities = <<"Lebanon">>
           /\ Len(records[k].dates_of_birth) >= 1
           /\ Len(records[k].programs) >= 1

\* C8: primary_name is the first documented name whose Alias has Primary
\* "true" (trimmed, any case) and whose full_name is not empty; every other
\* name with a non-empty full_name is an alias, in document order.
C8_FirstPrimaryName ==
    status = "ok" =>
        \A k \in 1..Len(records) :
            LET names == NamesOf(Recorded[k])
                at == FirstPrimary(names)
            IN  /\ at = 0 => records[k].primary_name = None
                /\ at # 0 => /\ records[k].primary_name # None
                             /\ The(records[k].primary_name).full_name = FullNameOf(names[at])
                /\ [i \in 1..Len(records[k].aliases) |-> records[k].aliases[i].full_name]
                       = [i \in 1..(Len(names) - (IF at = 0 THEN 0 ELSE 1)) |->
                             FullNameOf(names[IF at = 0 \/ i < at THEN i ELSE i + 1])]

\* a party with two names flagged primary after a name that is not
C8_Witness ==
    /\ status = "ok"
    /\ Len(records) = 1
    /\ FirstPrimary(NamesOf(Recorded[1])) > 1
    /\ \E j \in 1..Len(NamesOf(Recorded[1])) :
           j > FirstPrimary(NamesOf(Recorded[1])) /\ NamesOf(Recorded[1])[j].primary
    /\ records[1].primary_name # None

\* C9: the full_name of a name is its non-empty NamePartValue texts joined by
\* single spaces, ordered by the sort key of their name-part type (0 last,
\* entity, vessel, aircraft name; 1 first; 2 middle; 3 patronymic; 4
\* matronymic; 99 otherwise), parts of equal key in document order; name_parts
\* lists the parts in the same order.
C9_PartsInKeyOrder ==
    status = "ok" =>
        \A k \in 1..Len(records) :
            LET names == NamesOf(Recorded[k])
                given == NamesIn(records[k], FirstPrimary(names))
            IN  /\ Len(given) = Len(names)
                /\ \A i \in 1..Len(names) :
                       /\ PartsIn(given[i]) = names[i].parts
                       /\ given[i].full_name = FullNameOf(names[i])

\* a name with two parts of key 0 and two of key 99 that are not adjacent in
\* the document
C9_Witness ==
    /\ status = "ok"
    /\ Len(records) = 1
    /\ \E i, j \in 1..Len(records[1].aliases) :
           /\ records[1].aliases[i].full_name = "A C B X Y"
           /\ records[1].aliases[j].full_name = "L ENT MI PA MA"

\* C10: after clean_record primary_name is null or has a non-empty full_name,
\* vessel_info and aircraft_info are null or have a field that is neither null
\* nor empty, and a party whose vessel features have empty comments has a
\* null vessel_info.
C10_NoEmptyStructs ==
    \A k \in 1..Len(emitted) :
        /\ emitted[k].primary_name # None => The(emitted[k].primary_name).full_name # ""
        /\ emitted[k].vessel_info # None => HasValue(The(emitted[k].vessel_info))
        /\ emitted[k].aircraft_info # None => HasValue(The(emitted[k].aircraft_info))
        /\ emitted[k].vessel_info # None =>
               LET vessel == VesselFeaturesOf(Recorded[k])
               IN  \E i \in 1..Len(vessel) : ~CommentsEmpty(vessel[i])

\* a cleaned record of a party that has a vessel feature with an empty comment
C10_Witness ==
    /\ pc = "done"
    /\ emitted[1].vessel_info = None
    /\ Len(VesselFeaturesOf(Recorded[1])) >= 1
    /\ \A i \in 1..Len(VesselFeaturesOf(Recorded[1])) : CommentsEmpty(VesselFeaturesOf(Recorded[1])[i])
    /\ emitted[1].aircraft_info # None
    /\ emitted[1].primary_name # None

DigitsOf(s) ==
    SelectSeq([i \in 1..Len(s) |-> CharAt(s, i)], IsDigit)

\* the integer a decimal text denotes
ValueOf(s) ==
    LET digits == DigitsOf(s)
        n == Len(digits)
        place[i \in 0..n] ==
            IF i = 0 THEN 0 ELSE 10 * place[i - 1] + DigitVal(digits[i])
    IN  IF \E i \in 1..Len(s) : CharAt(s, i) = "-" THEN 0 - place[n] ELSE place[n]

\* the parties of the DistinctParties blocks after the first
LaterParties ==
    LET blocks == ChildrenOf(doc, "DistinctParties")
    IN  Flatten([b \in 1..(Len(blocks) - 1) |-> ChildrenOf(blocks[b + 1], "DistinctParty")])

\* C12: the returned list has one record for each DistinctParty of the first
\* DistinctParties block whose FixedRef is not blank, in document order, and
\* none for a party of a later block.
C12_OneRecordPerPartyInOrder ==
    status = "ok" =>
        /\ Len(records) = Len(Recorded)
        /\ \A k \in 1..Len(Recorded) :
               /\ records[k].sdn_entry_id = ValueOf(FixedRefOf(Recorded[k]))
               /\ records[k].primary_name # None
               /\ The(records[k].primary_name).full_name = FullNameOf(NamesOf(Recorded[k])[1])
        /\ \A k \in 1..Len(records) : \A j \in 1..Len(LaterParties) :
               The(records[k].primary_name).full_name # FullNameOf(NamesOf(LaterParties[j])[1])

\* two records in document order that is not the order of their ids, after
\* a document with a party in a later block
C12_Witness ==
    /\ status = "ok"
    /\ Len(records) = 2
    /\ records[1].sdn_entry_id > records[2].sdn_entry_id
    /\ Len(LaterParties) = 1

\* the bytes ParseOfacXmlFn was handed
Bytes == [well_formed |-> well_formed, root |-> doc]

\* two record lists that agree in every field but ingestion_timestamp
SameButTimestamp(first, second) ==
    /\ Len(first) = Len(second)
    /\ \A k \in 1..Len(first) :
           [first[k] EXCEPT !.ingestion_timestamp = ""] = [second[k] EXCEPT !.ingestion_timestamp = ""]

IssueDate ==
    IF Len(ChildrenOf(doc, "DateOfIssue")) = 0 THEN None
    ELSE Some(Trimmed(ChildrenOf(doc, "DateOfIssue")[1].text))

\* C14: the records of one call all carry the publication date of the
\* document, which is the trimmed text of the first DateOfIssue child of the
\* root or null, and one and the same ingestion_timestamp.
C14_OneDateOneTimestamp ==
    status = "ok" =>
        /\ pub_date = IssueDate
        /\ \E ingestion_ts \in Clock :
               /\ \A k \in 1..Len(records) :
                      /\ records[k].publication_date = IssueDate
                      /\ records[k].ingestion_timestamp = ingestion_ts
               /\ \A k \in 1..Len(emitted) :
                      /\ emitted[k].publication_date = IssueDate
                      /\ emitted[k].ingestion_timestamp = ingestion_ts

\* two records of a document that has two DateOfIssue children
C14_Witness ==
    /\ pc = "done"
    /\ Len(emitted) = 2
    /\ Len(ChildrenOf(doc, "DateOfIssue")) = 2
    /\ emitted[2].publication_date = Some("2026-01-02")

\* C15: clean_record applied to a record that clean_record returned gives
\* that record back.
C15_CleanIsIdempotent ==
    \A k \in 1..Len(emitted) : clean_record(emitted[k]) = emitted[k]

\* a record whose vessel_info and primary_name the first application made null
C15_Witness ==
    /\ pc = "done"
    /\ Len(emitted) = 1
    /\ records[1].vessel_info # None /\ emitted[1].vessel_info = None
    /\ records[1].primary_name # None /\ emitted[1].primary_name = None
    /\ emitted[1].aircraft_info # None
    /\ emitted[1].aircraft_info = records[1].aircraft_info

\* the items of the value sets of that name in the reference values
ValueItems(set_name) ==
    Flatten([i \in 1..Len(ChildrenOf(Node("", FirstBlock(doc, "ReferenceValueSets")), set_name)) |->
                ChildrenOf(Node("", FirstBlock(doc, "ReferenceValueSets")), set_name)[i].children])

\* the items with that ID
ItemsWithId(items, id) == SelectSeq(items, LAMBDA item : Attr(item, "ID", "") = id)

\* the PartySubTypeID of the Profile of a party
SubtypeIdOf(dp) == Attr(ChildrenOf(dp, "Profile")[1], "PartySubTypeID", "")

\* C16: a PartySubTypeValues item whose trimmed text is empty or "Unknown"
\* resolves to the PartyTypeValues text of its PartyTypeID, an item with
\* another text to that text, and sdn_type of a party whose Profile names
\* the item is the resolved subtype.
C16_UnknownSubtypeIsPartyType ==
    status = "ok" =>
        \A k \in 1..Len(Recorded) :
            \A item \in {ItemsWithId(ValueItems("PartySubTypeValues"), SubtypeIdOf(Recorded[k]))[i] :
                             i \in 1..Len(ItemsWithId(ValueItems("PartySubTypeValues"),
                                                      SubtypeIdOf(Recorded[k])))} :
                IF Trimmed(item.text) \in {"", "Unknown"}
                THEN \A type \in {ItemsWithId(ValueItems("PartyTypeValues"), Attr(item, "PartyTypeID", ""))[i] :
                                     i \in 1..Len(ItemsWithId(ValueItems("PartyTypeValues"),
                                                              Attr(item, "PartyTypeID", "")))} :
                         records[k].sdn_type = Some(Trimmed(type.text))
                ELSE records[k].sdn_type = Some(Trimmed(item.text))

\* a party whose subtype has an empty text and one whose subtype is " Unknown "
C16_Witness ==
    /\ status = "ok"
    /\ Len(records) = 2
    /\ SubtypeIdOf(Recorded[1]) = "6" /\ records[1].sdn_type = Some("Individual")
    /\ SubtypeIdOf(Recorded[2]) = "4" /\ records[2].sdn_type = Some("Entity")

\* the names of the table that are not NULL
TableNames == Flatten([e \in 1..Len(Table) |-> NamesOfEntry(Table[e])])

\* the request was a /screen request and was answered with 200
ScreenAnswered ==
    /\ request # None
    /\ The(request).path = "/screen"
    /\ response # None
    /\ The(response).status_code = 200

\* the body of the response
Body == The(The(response).body)

\* the score the contract gives a name of the table for the request
ScoreOf(all_name) ==
    LET name == The(The(request).name)
        threshold == Given(The(request).threshold, 4)
        distance == EDIT_DISTANCE(Lower(all_name), Lower(name))
    IN  IF Lower(all_name) = Lower(name) THEN 1
        ELSE IF distance <= 2 THEN 2
        ELSE IF distance <= threshold THEN 3
        ELSE IF SOUNDEX(all_name) = SOUNDEX(name) THEN 4
        ELSE 5

\* the names the response of /screen returns
ReturnedNames == { Body.results[i].matched_name : i \in 1..Len(Body.results) }

\* C17: a name of the table is returned as a candidate exactly when its
\* match_score is at most 4; checked where the limit lets every name through.
C17_CandidateIffScoreAtMost4 ==
    (ScreenAnswered /\ Given(The(request).limit, 20) >= Len(TableNames)) =>
        \A i \in 1..Len(TableNames) :
            TableNames[i] \in ReturnedNames <=> ScoreOf(TableNames[i]) <= 4

\* a request with threshold 0 and a name of the table at edit distance 1 from
\* the name asked for that is not returned
C17_Witness ==
    /\ ScreenAnswered
    /\ Given(The(request).limit, 20) >= Len(TableNames)
    /\ The(request).threshold = Some(0)
    /\ \E i \in 1..Len(TableNames) :
           /\ ScoreOf(TableNames[i]) = 2
           /\ TableNames[i] \notin ReturnedNames

\* the candidates of the query are the names within the threshold, equal, or
\* of equal Soundex key
C17_Sanity ==
    (ScreenAnswered /\ Given(The(request).limit, 20) >= Len(TableNames)
       /\ Given(The(request).threshold, 4) >= 2) =>
        \A i \in 1..Len(TableNames) :
            TableNames[i] \in ReturnedNames <=> ScoreOf(TableNames[i]) <= 4

\* the rows the WHERE of the query selects for the request, as results
Candidates ==
    LET rows == Selected(Table, The(The(request).name), Given(The(request).threshold, 4))
    IN  [k \in 1..Len(rows) |-> ScreenResult(_coerce_row(rows[k]))]

\* the candidates the results leave out
LeftOut(results, candidates) ==
    { k \in 1..Len(candidates) : \A i \in 1..Len(results) : results[i] # candidates[k] }

\* the results are the first candidates in order, limit at most
FirstInOrder(results, candidates, left_out, limit) ==
    /\ Len(results) <= limit
    /\ \A i \in 1..Len(results) : \E k \in 1..Len(candidates) : results[i] = candidates[k]
    /\ Len(results) + Cardinality(left_out) = Len(candidates)
    /\ left_out # {} => Len(results) = limit
    /\ \A i, j \in 1..Len(results) : i < j => ~OrderedBefore(results[j], results[i])
    /\ \A k \in left_out : \A i \in 1..Len(results) :
           ~OrderedBefore(candidates[k], results[i])

DocumentAnswered ==
    /\ request # None
    /\ The(request).path = "/screen/document"
    /\ response # None
    /\ The(response).status_code = 200

\* the entities the extractor returned to the handler
Extracted == calls[1].returned

\* the entries of screening_results that are a match
Matches == { i \in 1..Len(Body.screening_results) : Body.screening_results[i].is_match }

\* C19: a /screen/document response has one screening result per extracted
\* entity, in extraction order; is_match is true exactly when hits is not
\* empty; total_matches counts the results that match;
\* total_entities_extracted counts the entities; document_clear is true
\* exactly when total_matches is 0, so it is true when nothing is extracted.
C19_DocumentResponseConsistent ==
    DocumentAnswered =>
        /\ calls[1].fn = "extract_entities"
        /\ Len(Body.screening_results) = Len(Extracted)
        /\ \A i \in 1..Len(Extracted) :
               /\ Body.screening_results[i].entity = Extracted[i].name
               /\ Body.screening_results[i].entity_type = Extracted[i].entity_type
               /\ Body.screening_results[i].is_match <=> Len(Body.screening_results[i].hits) > 0
               /\ calls[i + 1].fn = "screen_names"
               /\ calls[i + 1].args[1] = Extracted[i].name
               /\ Len(Body.screening_results[i].hits) = Len(calls[i + 1].returned)
        /\ Body.entities_extracted = Extracted
        /\ Body.total_matches = Cardinality(Matches)
        /\ Body.total_entities_extracted = Len(Extracted)
        /\ Body.document_clear <=> Body.total_matches = 0
        /\ Len(Extracted) = 0 => Body.document_clear

\* two entities are extracted, the first has hits and the second has none
C19_Witness ==
    /\ DocumentAnswered
    /\ Len(Extracted) = 2
    /\ Body.screening_results[1].is_match
    /\ ~Body.screening_results[2].is_match
    /\ Body.total_matches = 1
    /\ ~Body.document_clear

\* entities are extracted, none has a hit, and the document is clear
C19_ClearWithEntities ==
    /\ DocumentAnswered
    /\ Len(Extracted) > 0
    /\ Body.total_matches = 0
    /\ Body.document_clear

\* a number that is given and lies outside lo..hi
Outside(o, lo, hi) == o # None /\ (The(o) < lo \/ The(o) > hi)

\* a /screen request that violates the bounds of its parameters
ScreenOutOfBounds ==
    /\ The(request).path = "/screen"
    /\ \/ The(request).name = None
       \/ The(request).name = Some("")
       \/ Outside(The(request).threshold, 0, 10)
       \/ Outside(The(request).limit, 1, 100)

\* a /screen/document request that violates the bounds of its fields
DocumentOutOfBounds ==
    /\ The(request).path = "/screen/document"
    /\ \/ The(request).text = None
       \/ The(request).text = Some("")
       \/ Outside(The(request).threshold, 0, 10)
       \/ Outside(The(request).limit_per_entity, 1, 20)

\* C20: a request that violates the input bounds is answered with 422 and no
\* collaborator has been called: no matcher query for /screen, neither the
\* entity extractor nor the matcher for /screen/document.
C20_RejectedBeforeCollaborators ==
    /\ (request # None /\ response # None /\ (ScreenOutOfBounds \/ DocumentOutOfBounds)) =>
           /\ The(response).status_code = 422
           /\ calls = << >>
    /\ (request # None /\ response = None) => calls = << >>

\* a /screen request with a name and a threshold above 10 has been answered
C20_Witness ==
    /\ request # None
    /\ response # None
    /\ The(request).path = "/screen"
    /\ The(request).name = Some("cat")
    /\ The(request).threshold = Some(11)
    /\ Outside(The(request).limit, 1, 100) = FALSE
    /\ The(response).status_code = 422
    /\ calls = << >>

\* a /screen/document request with an empty text has been answered
C20_EmptyTextRejected ==
    /\ request # None
    /\ response # None
    /\ The(request).path = "/screen/document"
    /\ The(request).text = Some("")
    /\ The(request).threshold = None
    /\ The(request).limit_per_entity = None
    /\ The(response).status_code = 422
    /\ calls = << >>

\* the DatePeriod of the first feature version of the first party
ThePeriod ==
    ChildrenOf(ChildrenOf(ChildrenOf(ChildrenOf(Parties[1], "Profile")[1], "Feature")[1],
                          "FeatureVersion")[1], "DatePeriod")[1]

\* the Start and End children of a DatePeriod, in document order
Boundaries(period) ==
    SelectSeq(period.children, LAMBDA b : _local_tag(b.tag) \in {"Start", "End"})

\* the trimmed text of the Year, Month or Day of the From of a boundary
DatePart(boundary, name) ==
    IF ChildrenOf(boundary, "From") = << >> THEN ""
    ELSE LET parts == ChildrenOf(ChildrenOf(boundary, "From")[1], name)
         IN  IF parts = << >> THEN "" ELSE Trimmed(parts[Len(parts)].text)

\* a month or a day at width 2
Width2(s) == IF Len(s) = 1 THEN "0" \o s ELSE s

\* YYYY-MM-DD, YYYY-MM or YYYY, by what the boundary has
DateOfBoundary(boundary) ==
    IF DatePart(boundary, "Month") # "" /\ DatePart(boundary, "Day") # ""
    THEN DatePart(boundary, "Year") \o "-" \o Width2(DatePart(boundary, "Month"))
             \o "-" \o Width2(DatePart(boundary, "Day"))
    ELSE IF DatePart(boundary, "Month") # ""
    THEN DatePart(boundary, "Year") \o "-" \o Width2(DatePart(boundary, "Month"))
    ELSE DatePart(boundary, "Year")

\* the boundaries whose From has a Year that is not empty
Dated(period) == SelectSeq(Boundaries(period), LAMBDA b : DatePart(b, "Year") # "")

\* the parse has returned
ParseReturned == pc \in {"parsed", "done"} /\ status = "ok"

\* C21: _parse_date_period returns the date of the first Start or End
\* boundary, in document order, whose From has a non-empty Year, as
\* YYYY-MM-DD, YYYY-MM or YYYY with Month and Day at width 2, and null when
\* no boundary has a Year; read from dates_of_birth of a Birthdate feature.
C21_FirstDatedBoundary ==
    ParseReturned =>
        /\ _parse_date_period(ThePeriod) =
               IF Dated(ThePeriod) = << >> THEN None
               ELSE Some(DateOfBoundary(Dated(ThePeriod)[1]))
        /\ records[1].dates_of_birth =
               IF Dated(ThePeriod) = << >> THEN << >>
               ELSE << DateOfBoundary(Dated(ThePeriod)[1]) >>

\* the first boundary has no year and the second one gives the date
C21_Witness ==
    /\ ParseReturned
    /\ Len(Boundaries(ThePeriod)) = 2
    /\ DatePart(Boundaries(ThePeriod)[1], "Year") = ""
    /\ records[1].dates_of_birth = << "1958-07-30" >>

\* the number a Year, Month or Day text of digits denotes
NumberOf(s) == DigitsValue(s, 0)

\* boundary a denotes a date strictly earlier than boundary b, as far as the
\* parts both of them have tell
EarlierBoundary(a, b) ==
    \/ NumberOf(DatePart(a, "Year")) < NumberOf(DatePart(b, "Year"))
    \/ /\ NumberOf(DatePart(a, "Year")) = NumberOf(DatePart(b, "Year"))
       /\ DatePart(a, "Month") # "" /\ DatePart(b, "Month") # ""
       /\ \/ NumberOf(DatePart(a, "Month")) < NumberOf(DatePart(b, "Month"))
          \/ /\ NumberOf(DatePart(a, "Month")) = NumberOf(DatePart(b, "Month"))
             /\ DatePart(a, "Day") # "" /\ DatePart(b, "Day") # ""
             /\ NumberOf(DatePart(a, "Day")) < NumberOf(DatePart(b, "Day"))

\* C22: the date _parse_date_period returns is the earliest of the dates of
\* the Start and End boundaries: no boundary with a non-empty Year denotes a
\* date strictly earlier than the returned one.
C22_EarliestBoundary ==
    (ParseReturned /\ records[1].dates_of_birth # << >>) =>
        \A i, j \in 1..Len(Dated(ThePeriod)) :
            DateOfBoundary(Dated(ThePeriod)[j]) = records[1].dates_of_birth[1]
                => ~EarlierBoundary(Dated(ThePeriod)[i], Dated(ThePeriod)[j])

\* the returned date is no later than any other where the boundaries come in
\* the order of their dates
C22_EarliestWhenInOrder ==
    (ParseReturned /\ records[1].dates_of_birth # << >>
       /\ \A i, j \in 1..Len(Dated(ThePeriod)) :
              i < j => ~EarlierBoundary(Dated(ThePeriod)[j], Dated(ThePeriod)[i])) =>
        \A i, j \in 1..Len(Dated(ThePeriod)) :
            DateOfBoundary(Dated(ThePeriod)[j]) = records[1].dates_of_birth[1]
                => ~EarlierBoundary(Dated(ThePeriod)[i], Dated(ThePeriod)[j])

\* the text of the items of a value set with that ID, lowercased
TypeNames(set_name, id) ==
    LET items == ItemsWithId(ValueItems(set_name), id)
    IN  [i \in 1..Len(items) |-> Lower(Trimmed(items[i].text))]

\* the comment a FeatureVersion ends with: the trimmed text of its last Comment
CommentOf(version) ==
    LET comments == ChildrenOf(version, "Comment")
    IN  IF comments = << >> THEN "" ELSE Trimmed(comments[Len(comments)].text)

\* the feature versions of a party in document order, each with the
\* lowercased name of its feature type and its comment
VersionsOf(dp) ==
    LET features == ChildrenOf(ChildrenOf(dp, "Profile")[1], "Feature")
    IN  Flatten([f \in 1..Len(features) |->
                    [v \in 1..Len(ChildrenOf(features[f], "FeatureVersion")) |->
                        [name |-> TypeNames("FeatureTypeValues",
                                            Attr(features[f], "FeatureTypeID", ""))[1],
                         comment |-> CommentOf(ChildrenOf(features[f], "FeatureVersion")[v])]]])

\* the positions of the keys of the table that are substrings of the name
MatchingKeys(table, name) == { i \in 1..Len(table) : Contains(table[i][1], name) }

\* the first of them in table order
FirstKey(table, name) == CHOOSE i \in MatchingKeys(table, name) :
                             \A j \in MatchingKeys(table, name) : i <= j

\* the versions that set the field: they have a comment and the first key
\* that matches their name is a key of the field
Setting(table, versions, field) ==
    { v \in 1..Len(versions) :
        /\ versions[v].comment # ""
        /\ MatchingKeys(table, versions[v].name) # {}
        /\ table[FirstKey(table, versions[v].name)][2] = field }

\* what the field holds after the versions: the comment of the last version
\* that sets it, or null
FieldAfter(table, versions, field) ==
    IF Setting(table, versions, field) = {} THEN None
    ELSE Some(versions[CHOOSE v \in Setting(table, versions, field) :
                           \A w \in Setting(table, versions, field) : w <= v].comment)

\* the struct the record has for the table: null when no field was set
InfoAfter(table, versions, fields) ==
    IF \A field \in fields : FieldAfter(table, versions, field) = None THEN None
    ELSE Some([field \in fields |-> FieldAfter(table, versions, field)])

\* C23: a FeatureVersion with a non-empty comment sets at most one vessel
\* field and at most one aircraft field to the comment, the field of the
\* first key in table order that is a substring of the lowercased feature
\* type name; keys later in the table that match as well set nothing.
C23_FirstKeyOnly ==
    ParseReturned =>
        LET versions == VersionsOf(Recorded[1])
        IN  /\ records[1].vessel_info = InfoAfter(VESSEL_FEATURES, versions, VesselFields)
            /\ records[1].aircraft_info = InfoAfter(AIRCRAFT_FEATURES, versions, AircraftFields)

\* the manufacturer is set by one feature, and a feature whose name holds
\* "aircraft manufacturer's serial number" then sets the serial number only
C23_Witness ==
    /\ ParseReturned
    /\ Len(VersionsOf(Recorded[1])) = 2
    /\ VersionsOf(Recorded[1])[2].name = "aircraft manufacturer's serial number (msn)"
    /\ Cardinality(MatchingKeys(AIRCRAFT_FEATURES, VersionsOf(Recorded[1])[2].name)) = 2
    /\ records[1].aircraft_info # None
    /\ The(records[1].aircraft_info).aircraft_serial = Some("S1")
    /\ The(records[1].aircraft_info).aircraft_manufacturer = Some("Boeing")

\* a name that holds two vessel keys sets the field of the first one only
C23_TwoVesselKeys ==
    /\ ParseReturned
    /\ Len(VersionsOf(Recorded[1])) = 1
    /\ Cardinality(MatchingKeys(VESSEL_FEATURES, VersionsOf(Recorded[1])[1].name)) = 2
    /\ records[1].vessel_info # None
    /\ The(records[1].vessel_info).vessel_type = Some("F1")
    /\ The(records[1].vessel_info).vessel_flag = None

\* the Location elements of the document with that ID
LocationsWithId(id) ==
    SelectSeq(FirstBlock(doc, "Locations"),
              LAMBDA loc : _local_tag(loc.tag) = "Location" /\ Attr(loc, "ID", "") = id)

\* the lowercased name the LocPartTypeID of a part resolves to, "" if none
PartTypeName(part) ==
    LET names == TypeNames("LocPartTypeValues", Attr(part, "LocPartTypeID", ""))
    IN  IF names = << >> THEN "" ELSE names[1]

\* the trimmed text of the first LocationPartValue of a part, "" if none
PartValueOf(part) ==
    LET values == ChildrenOf(part, "LocationPartValue")
    IN  IF values = << >> THEN "" ELSE Trimmed(values[1].text)

\* the Address field the name routes a value to, "other" for the last case
FieldFor(name) ==
    IF Contains("city", name) THEN "city"
    ELSE IF Contains("address", name) THEN "address"
    ELSE IF Contains("state", name) \/ Contains("province", name) THEN "state_province"
    ELSE IF Contains("postal", name) \/ Contains("zip", name) THEN "postal_code"
    ELSE IF Contains("region", name) THEN "region"
    ELSE "other"

\* the six fields after one more part
AfterPart(data, part) ==
    IF PartValueOf(part) = "" THEN data
    ELSE IF FieldFor(PartTypeName(part)) = "other"
    THEN [data EXCEPT !.address = IF @ = "" THEN PartValueOf(part)
                                  ELSE @ \o ", " \o PartValueOf(part)]
    ELSE [data EXCEPT ![FieldFor(PartTypeName(part))] = PartValueOf(part)]

\* the six fields after the first n parts
RECURSIVE AfterParts(_, _, _)
AfterParts(data, parts, n) ==
    IF n = 0 THEN data ELSE AfterPart(AfterParts(data, parts, n - 1), parts[n])

\* the name of the country of a location, "" if it has none
CountryOf(loc) ==
    LET countries == ChildrenOf(loc, "LocationCountry")
        names == IF countries = << >> THEN << >>
                 ELSE ItemsWithId(ValueItems("CountryValues"),
                                  Attr(countries[Len(countries)], "CountryID", ""))
    IN  IF names = << >> THEN "" ELSE Trimmed(names[1].text)

\* the six fields of a location as the routing rules give them
Routed(loc) ==
    AfterParts([address |-> "", city |-> "", state_province |-> "", postal_code |-> "",
                country |-> CountryOf(loc), region |-> ""],
               ChildrenOf(loc, "LocationPart"), Len(ChildrenOf(loc, "LocationPart")))

\* the locations map of the document
LocationsMap ==
    _build_locations_map(doc, DictGet(_build_ref_maps(doc), "CountryValues", EmptyDict),
                         DictGet(_build_ref_maps(doc), "LocPartTypeValues", EmptyDict))

\* a part of the location has a value that begins with a comma
LeadingComma(loc) ==
    \E i \in 1..Len(ChildrenOf(loc, "LocationPart")) :
        /\ PartValueOf(ChildrenOf(loc, "LocationPart")[i]) # ""
        /\ CharAt(PartValueOf(ChildrenOf(loc, "LocationPart")[i]), 1) = ","

\* C24: in the locations map every non-empty LocationPart value is written
\* to one Address field, the one of the first test that matches the
\* lowercased part-type name (city, address, state or province, postal or
\* zip, region), and otherwise appended to address after ", ", without a
\* separator when address is empty; a part with an empty value changes nothing.
C24_PartsRouted ==
    ParseReturned =>
        /\ LocationsMap["L1"] = Routed(LocationsWithId("L1")[1])
        /\ records[1].addresses =
               IF \A k \in DOMAIN Routed(LocationsWithId("L1")[1]) :
                      Routed(LocationsWithId("L1")[1])[k] = ""
               THEN << >>
               ELSE << Routed(LocationsWithId("L1")[1]), Routed(LocationsWithId("L1")[1]) >>

\* the same for the locations none of whose values begins with a comma
C24_RoutedWithoutLeadingComma ==
    (ParseReturned /\ ~LeadingComma(LocationsWithId("L1")[1])) =>
        /\ LocationsMap["L1"] = Routed(LocationsWithId("L1")[1])
        /\ records[1].addresses =
               IF \A k \in DOMAIN Routed(LocationsWithId("L1")[1]) :
                      Routed(LocationsWithId("L1")[1])[k] = ""
               THEN << >>
               ELSE << Routed(LocationsWithId("L1")[1]), Routed(LocationsWithId("L1")[1]) >>

\* an address part followed by a part of unknown type: the second value is
\* appended to the first after ", "
C24_Appended ==
    /\ ParseReturned
    /\ records[1].addresses # << >>
    /\ records[1].addresses[1].address = "12 Main St, Suite 5"

\* two texts joined by ", ", an empty one left out
Glued(a, b) == IF a = "" THEN b ELSE IF b = "" THEN a ELSE a \o ", " \o b

\* the place of birth a location gives
PlaceOf(loc) == Glued(Glued(loc.city, loc.state_province), loc.country)

\* the references to locations of the party, in document order, each with the
\* lowercased name of the type of its feature
LocationRefs(dp) ==
    LET features == ChildrenOf(ChildrenOf(dp, "Profile")[1], "Feature")
        refs(version) ==
            Flatten([c \in 1..Len(version.children) |->
                IF _local_tag(version.children[c].tag) = "VersionLocation"
                THEN << Attr(version.children[c], "LocationID", "") >>
                ELSE IF _local_tag(version.children[c].tag) = "VersionDetail"
                THEN [i \in 1..Len(ChildrenOf(version.children[c], "LocationID")) |->
                         Trimmed(ChildrenOf(version.children[c], "LocationID")[i].text)]
                ELSE << >>])
    IN  Flatten([f \in 1..Len(features) |->
            Flatten([v \in 1..Len(ChildrenOf(features[f], "FeatureVersion")) |->
                [r \in 1..Len(refs(ChildrenOf(features[f], "FeatureVersion")[v])) |->
                    [name |-> TypeNames("FeatureTypeValues",
                                        Attr(features[f], "FeatureTypeID", ""))[1],
                     id |-> refs(ChildrenOf(features[f], "FeatureVersion")[v])[r]]]])])

\* the references to locations the map has
Resolved(refs, map) == SelectSeq(refs, LAMBDA r : r.id \in DOMAIN map)

IsBirthPlace(name) == Contains("birth", name) /\ Contains("place", name)

\* places_of_birth and addresses after the first n references
RECURSIVE AfterRefs(_, _, _)
AfterRefs(refs, map, n) ==
    IF n = 0 THEN [places_of_birth |-> << >>, addresses |-> << >>]
    ELSE LET before == AfterRefs(refs, map, n - 1)
             loc == map[refs[n].id]
         IN  IF IsBirthPlace(refs[n].name)
             THEN [before EXCEPT !.places_of_birth =
                      IF PlaceOf(loc) = "" \/ \E i \in 1..Len(@) : @[i] = PlaceOf(loc)
                      THEN @ ELSE Append(@, PlaceOf(loc))]
             ELSE [before EXCEPT !.addresses =
                      IF \A k \in DOMAIN loc : loc[k] = "" THEN @ ELSE Append(@, loc)]

\* C25: a feature that references a resolved location appends, when its
\* lowercased type name contains "birth" and "place", the ", "-join of the
\* non-empty city, state_province and country to places_of_birth unless it is
\* empty or present already, and leaves addresses as they are; any other
\* feature appends one Address record of the six fields unless all are
\* empty, and leaves places_of_birth as they are.
C25_BirthPlaceOrAddress ==
    ParseReturned =>
        LET map == LocationsMap
            refs == Resolved(LocationRefs(Recorded[1]), map)
            after == AfterRefs(refs, map, Len(refs))
        IN  /\ records[1].places_of_birth = after.places_of_birth
            /\ records[1].addresses = after.addresses

\* the location has a city, a state and a country: the place of birth is
\* there once, and the address twice, once for the Location feature and once
\* for the Birthdate feature
C25_Witness ==
    /\ ParseReturned
    /\ records[1].places_of_birth = << "Beirut, Mount Lebanon, Lebanon" >>
    /\ Len(records[1].addresses) = 2
    /\ records[1].addresses[1].city = "Beirut"
    /\ Len(LocationRefs(Recorded[1])) = 5

\* the location has no field with a value: nothing is appended
C25_EmptyLocation ==
    /\ ParseReturned
    /\ "L1" \in DOMAIN LocationsMap
    /\ records[1].places_of_birth = << >>
    /\ records[1].addresses = << >>

\* the SanctionsEntry elements of the document with that ProfileID, in order
EntriesOf(profile_id) ==
    SelectSeq(FirstBlock(doc, "SanctionsEntries"),
              LAMBDA entry : /\ _local_tag(entry.tag) = "SanctionsEntry"
                             /\ Trimmed(Attr(entry, "ProfileID", "")) = profile_id)

\* the Remarks children of those entries, in document order
RemarksOf(profile_id) ==
    Flatten([e \in 1..Len(EntriesOf(profile_id)) |-> ChildrenOf(EntriesOf(profile_id)[e], "Remarks")])

\* the remark of one entry: the trimmed text of its last Remarks child
EntryRemark(entry) ==
    IF ChildrenOf(entry, "Remarks") = << >> THEN ""
    ELSE Trimmed(ChildrenOf(entry, "Remarks")[Len(ChildrenOf(entry, "Remarks"))].text)

\* the entries whose remark is not empty
Remarking(profile_id) == SelectSeq(EntriesOf(profile_id), LAMBDA entry : EntryRemark(entry) # "")

\* the sanctions map of the document
SanctionsMap ==
    _build_sanctions_map(doc, DictGet(_build_ref_maps(doc), "LegalBasisValues", EmptyDict),
                         DictGet(_build_ref_maps(doc), "SanctionsProgramValues", EmptyDict))

\* the map and the record of the first party hold that remark for the profile
RemarksAre(profile_id, text) ==
    /\ profile_id \in DOMAIN SanctionsMap => SanctionsMap[profile_id].remarks = text
    /\ profile_id \notin DOMAIN SanctionsMap => text = ""
    /\ records[1].remarks = IF text = "" THEN None ELSE Some(text)

\* C26 as stated: the remarks of a profile ID is the trimmed text of the last
\* Remarks child, in document order, over all SanctionsEntry elements with
\* that ProfileID, also when that last Remarks is empty.
C26_LastRemarksWins ==
    ParseReturned =>
        RemarksAre("P1", IF RemarksOf("P1") = << >> THEN ""
                         ELSE Trimmed(RemarksOf("P1")[Len(RemarksOf("P1"))].text))

\* C26 amended: the remarks of a profile ID is the remark of the last
\* SanctionsEntry with that ProfileID whose remark is not empty, the remark
\* of an entry being the trimmed text of its last Remarks child; an entry
\* whose last Remarks is empty leaves the remarks of the entries before it.
C26_LastNonEmptyEntryRemark ==
    ParseReturned =>
        RemarksAre("P1", IF Remarking("P1") = << >> THEN ""
                         ELSE EntryRemark(Remarking("P1")[Len(Remarking("P1"))]))

\* an entry with a remark is followed by an entry whose Remarks is empty, and
\* the record keeps the remark of the first
C26_Witness ==
    /\ ParseReturned
    /\ Len(EntriesOf("P1")) = 2
    /\ EntryRemark(EntriesOf("P1")[1]) = "r1"
    /\ ChildrenOf(EntriesOf("P1")[2], "Remarks") # << >>
    /\ EntryRemark(EntriesOf("P1")[2]) = ""
    /\ records[1].remarks = Some("r1")

(***************************************************************************)
(* C27                                                                     *)
(***************************************************************************)
\* the lookup maps as their objects hold them now
LookupsNow == MapValues(heap, lookups)

\* record i with the lists and dicts its objects hold now
RecordNow(i) ==
    [made[i].record EXCEPT
        !.programs = heap[made[i].programs],
        !.legal_authorities = heap[made[i].legal_authorities],
        !.addresses = [k \in 1..Len(made[i].addresses) |-> heap[made[i].addresses[k]]],
        !.id_documents = [k \in 1..Len(made[i].id_documents) |-> heap[made[i].id_documents[k]]]]

\* the record the last change was made to, 0 when the step changes none
ChangedNow == IF Len(changes) = 0 THEN 0 ELSE changes[Len(changes)]

\* C27: no step after pass 1 (a party emitted, an object of a returned record
\* changed, clean_record applied to a returned record) changes what a lookup
\* map holds, and a change to one record changes no other record.
C27_CopiesAreFresh ==
    [][hpc >= 1 =>
          /\ LookupsNow' = LookupsNow
          /\ \A i \in 1..Len(made) :
                 (i <= Len(made') /\ (changes' = changes \/ ChangedNow' # i))
                     => RecordNow(i)' = RecordNow(i)]_vars

\* a returned record was changed in an ID document that another record holds
\* too, and the other record still has the document as the map has it
C27_Witness ==
    /\ HasReturned
    /\ Len(changes) = 1
    /\ \E i, j \in 1..Len(made) :
           /\ i # j
           /\ changes[1] = i
           /\ Len(made[i].id_documents) > 0
           /\ made[i].record.id_documents = made[j].record.id_documents
           /\ RecordNow(i).id_documents # RecordNow(j).id_documents
           /\ RecordNow(j).id_documents[1] = LookupsNow.id_docs["D1"]

\* before any change the records are those of parse_ofac_advanced_xml
C27_RecordsAsParsed ==
    (HasReturned /\ changes = <<>>) =>
        [i \in 1..Len(made) |-> RecordNow(i)]
            = parse_ofac_advanced_xml(doc, lookups.ingestion_ts).records

\* no object is held by two records or by a record and a lookup map
C27_NoSharedObject ==
    /\ \A i, j \in 1..Len(made) : i # j => ObjectsOf(made[i]) \cap ObjectsOf(made[j]) = {}
    /\ \A i \in 1..Len(made) : \A a \in ObjectsOf(made[i]) : a[1] = "object"

(***************************************************************************)
(* C28                                                                     *)
(***************************************************************************)
\* the kinds whose ID attribute the document gives an ID its table lacks
UnknownKinds ==
    CHOOSE unknown \in SUBSET ReferenceKinds : doc = ReferencingDocument(IdsWith(unknown))

\* the record of the one party
TheRecord == records[1]

\* the value the record shows for the reference of kind k: a null or an absent
\* list entry is ""
ShownFor(k) ==
    LET r == TheRecord
    IN  CASE k = "party subtype" -> OrElse(r.sdn_type, "")
          [] k = "alias type" -> r.aliases[1].alias_type
          [] k = "script" -> r.aliases[1].name_parts[1].script
          [] k = "name-part group" -> r.aliases[1].name_parts[1].part_type
          [] k = "name-part type" -> r.aliases[1].name_parts[1].part_type
          [] k = "country" -> Join(";", r.nationalities)
          [] k = "location-part type" -> IF Len(r.addresses) = 0 THEN "" ELSE r.addresses[1].city
          [] k = "ID-document type" -> IF Len(r.id_documents) = 0 THEN "" ELSE r.id_documents[1].id_type
          [] k = "feature type" -> OrElse(r.gender, "")
          [] k = "legal basis" -> Join(";", r.legal_authorities)
          [] k = "location" -> IF Len(r.addresses) = 0 THEN "" ELSE "address"
          [] k = "ID document" -> IF Len(r.id_documents) = 0 THEN "" ELSE "document"

\* what the record shows for a reference whose ID is in its table
ShownWhenKnown ==
    [k \in ReferenceKinds |->
        CASE k = "party subtype" -> "Vessel"   [] k = "alias type" -> "F.K.A."
          [] k = "script" -> "Latin"           [] k = "name-part group" -> "Last Name"
          [] k = "name-part type" -> "Last Name" [] k = "country" -> "Lebanon"
          [] k = "location-part type" -> "Beirut" [] k = "ID-document type" -> "Passport"
          [] k = "feature type" -> "Male"      [] k = "legal basis" -> "EO 13382"
          [] k = "location" -> "address"       [] k = "ID document" -> "document"]

\* the kinds one of which hides the other: without the location there is no
\* address to show a city, without the ID document no id_type, and without
\* the group the name-part type of the group is not read
HiddenBy(k) ==
    CASE k = "location-part type" -> {"location"}
      [] k = "ID-document type" -> {"ID document"}
      [] k = "name-part type" -> {"name-part group"}
      [] OTHER -> {}

DefaultFor(k) ==
    CASE k = "alias type" -> "a.k.a."
      [] k = "name-part group" -> "Name"
      [] k = "name-part type" -> "part_" \o UnknownId[k]
      [] OTHER -> ""

StepNames == [i \in 1..Len(steps) |-> steps[i].step]

\* the step succeeded, in the words of the claim
Succeeded(s) ==
    /\ s.result.error = ""
    /\ s.step = "download" =>
           /\ s.result.body.size > 0
           /\ s.result.body.first_lt \in 1..200

\* C29: the calls are made in the order download, upload, launch, each only
\* after the configuration was complete and every earlier call succeeded; a
\* missing variable or a failed call ends the invocation with a 500 response.
C29_StepsInOrder ==
    /\ \E n \in 0..3 : StepNames = SubSeq(<<"download", "upload", "launch">>, 1, n)
    /\ Len(steps) > 0 => \A k \in RequiredKeys : k \in DOMAIN env /\ env[k] # ""
    /\ \A i \in 1..(Len(steps) - 1) : Succeeded(steps[i])
    /\ (fpc = "returned") = (reply # None)
    /\ fpc = "returned" =>
           /\ The(reply).code \in {200, 500}
           /\ The(reply).code = 200 <=> (Len(steps) = 3 /\ \A i \in 1..3 : Succeeded(steps[i]))
    /\ fpc # "returned" => \A i \in 1..Len(steps) : Succeeded(steps[i])

\* a job was launched after a download whose first "<" is the 200th byte
C29_Witness ==
    /\ fpc = "returned"
    /\ The(reply).code = 200
    /\ StepNames = <<"download", "upload", "launch">>
    /\ steps[1].result.body.first_lt = 200
    /\ The(reply).xml_size_bytes = 300

\* the upload failed: 500, and no job was launched
C29_UploadFailed ==
    /\ fpc = "returned"
    /\ The(reply).code = 500
    /\ StepNames = <<"download", "upload">>

(***************************************************************************)
(* C30                                                                     *)
(***************************************************************************)
\* a record without its ingestion_timestamp
Unstamped(record) == [record EXCEPT !.ingestion_timestamp = ""]

\* both parsers have returned or raised
BothParsed == pc \in {"parsed", "failed", "done"} /\ twin # None

\* C30: on the same bytes both parsers return the same publication date and
\* the same records, ingestion_timestamp aside, or both raise.
C30_ParsersAgree ==
    BothParsed =>
        /\ The(twin).status = status
        /\ The(twin).pub_date = pub_date
        /\ Len(The(twin).records) = Len(records)
        /\ \A i \in 1..Len(records) : Unstamped(The(twin).records[i]) = Unstamped(records[i])

\* a record without the fields that the statements in which the two parsers
\* differ write to
Common(record) ==
    [Unstamped(record) EXCEPT !.sdn_type = None, !.programs = <<>>, !.legal_authorities = <<>>,
                              !.remarks = None,
                              !.addresses = [k \in DOMAIN @ |-> [@[k] EXCEPT !.address = ""]]]

\* the two parsers agree on everything else
C30_AgreeOnTheRest ==
    BothParsed =>
        /\ The(twin).status = status
        /\ The(twin).pub_date = pub_date
        /\ Len(The(twin).records) = Len(records)
        /\ \A i \in 1..Len(records) : Common(The(twin).records[i]) = Common(records[i])

\* the parsers disagree on the programs of a party
C30_ProgramsDiffer ==
    /\ BothParsed
    /\ \E i \in 1..Len(records) : The(twin).records[i].programs # records[i].programs

\* the parsers disagree on sdn_type only
C30_TypeDiffers ==
    /\ BothParsed
    /\ \E i \in 1..Len(records) :
           /\ The(twin).records[i].sdn_type # records[i].sdn_type
           /\ [Unstamped(The(twin).records[i]) EXCEPT !.sdn_type = None]
                  = [Unstamped(records[i]) EXCEPT !.sdn_type = None]

\* the parsers disagree on an address
C30_AddressDiffers ==
    /\ BothParsed
    /\ \E i \in 1..Len(records) : The(twin).records[i].addresses # records[i].addresses

====
